---- MODULE Spec2Model ----
(***************************************************************************)
(* The auto-memoization pass of forgetti: the Optimizer (core/optimizer.ts) *)
(* and its OptimizerScope, as a state machine.  One step of the machine is  *)
(* the optimizer visiting the next statement of a component body; the      *)
(* recursive descent of a handler is a RECURSIVE operator that threads the  *)
(* optimizer through the handler's calls in the order the code makes them.  *)
(***************************************************************************)
EXTENDS Integers, Sequences, FiniteSets, TLC

VARIABLES
  opt,      \* the Optimizer: its scope tree, current scope, uid counter, slot log
  visited,  \* the statements of the component body visited so far, in order
  result,   \* the rewritten body, once optimizeFunctionComponent has run
  pc,       \* "walk" while optimizeBlock runs over the body, then "done"
  invocation \* the last call of a method driven on its own: arguments and answer

vars == <<opt, visited, result, pc, invocation>>

(***************************************************************************)
(* AST nodes.  One record shape for every node kind: t is the Babel node   *)
(* type, s a name, operator, declaration kind or hook classification, n a  *)
(* number (a numeric literal's value, the serial of a generated uid), k    *)
(* the children in evaluation order, c the leading comment.                *)
(***************************************************************************)
Node(t, s, n, k) == [t |-> t, s |-> s, n |-> n, k |-> k, c |-> ""]

Undefined == Node("undefined", "", 0, <<>>)

\* A source identifier that refers to the binding of that name.
identifier(name) == Node("Identifier", name, 0, <<>>)

\* A reference to a name in the source.  Every occurrence is a node of its
\* own; n = -1 marks it as such (it is not the binding's node, nor a uid).
reference(name) == Node("Identifier", name, -1, <<>>)

isOccurrence(node) == node.t = "Identifier" /\ node.n < 0

numericLiteral(v) == Node("NumericLiteral", "", v, <<>>)

nullLiteral == Node("NullLiteral", "null", 0, <<>>)

stringLiteral(v) == Node("StringLiteral", v, 0, <<>>)

memberExpression(object, property, computed) ==
  Node("MemberExpression", IF computed THEN "computed" ELSE "", 0, <<object, property>>)

\* s is the call's hook classification; "" for calls the pass emits itself.
callExpression(callee, arguments) == Node("CallExpression", "", 0, <<callee>> \o arguments)

conditionalExpression(test, consequent, alternate) ==
  Node("ConditionalExpression", "", 0, <<test, consequent, alternate>>)

assignmentExpression(op, left, right) == Node("AssignmentExpression", op, 0, <<left, right>>)

binaryExpression(op, left, right) == Node("BinaryExpression", op, 0, <<left, right>>)

logicalExpression(op, left, right) == Node("LogicalExpression", op, 0, <<left, right>>)

unaryExpression(op, argument) == Node("UnaryExpression", op, 0, <<argument>>)

updateExpression(op, argument) == Node("UpdateExpression", op, 0, <<argument>>)

arrayExpression(elements) == Node("ArrayExpression", "", 0, elements)

objectExpression(properties) == Node("ObjectExpression", "", 0, properties)

objectProperty(key, value) == Node("ObjectProperty", "", 0, <<key, value>>)

spreadElement(argument) == Node("SpreadElement", "", 0, <<argument>>)

sequenceExpression(expressions) == Node("SequenceExpression", "", 0, expressions)

parenthesizedExpression(expression) == Node("ParenthesizedExpression", "", 0, <<expression>>)

\* A function literal, abstracted to its free variables (getForeignBindings).
arrowFunctionExpression(free) == Node("ArrowFunctionExpression", "", 0, free)

variableDeclarator(id, init) == Node("VariableDeclarator", "", 0, <<id, init>>)

variableDeclaration(kind, declarations) == Node("VariableDeclaration", kind, 0, declarations)

expressionStatement(expression) == Node("ExpressionStatement", "", 0, <<expression>>)

returnStatement(argument) == Node("ReturnStatement", "", 0, <<argument>>)

throwStatement(argument) == Node("ThrowStatement", "", 0, <<argument>>)

blockStatement(body) == Node("BlockStatement", "", 0, body)

ifStatement(test, consequent) == Node("IfStatement", "", 0, <<test, consequent>>)

ifElseStatement(test, consequent, alternate) ==
  Node("IfStatement", "", 0, <<test, consequent, alternate>>)

whileStatement(test, body) == Node("WhileStatement", "", 0, <<test, body>>)

forOfStatement(left, right, body) == Node("ForOfStatement", "", 0, <<left, right, body>>)

switchCase(test, consequent) == Node("SwitchCase", "", 0, <<test>> \o consequent)

switchStatement(discriminant, cases) == Node("SwitchStatement", "", 0, <<discriminant>> \o cases)

tryStatement(block, handler, finalizer) == Node("TryStatement", "", 0, <<block, handler, finalizer>>)

catchClause(body) == Node("CatchClause", "", 0, <<body>>)

labeledStatement(label, body) == Node("LabeledStatement", label, 0, <<body>>)

\* A source call with its hook classification (what getHookCallType answers).
hookCall(hookType, callee, arguments) ==
  [callExpression(callee, arguments) EXCEPT !.s = hookType]

\* The node with a leading skip comment.
skipped(node) == [node EXCEPT !.c = "skip"]

\* The runtime symbols the rewritten component imports.
RUNTIME_CACHE == identifier("$$cache")

RUNTIME_REF == identifier("$$ref")

RUNTIME_BRANCH == identifier("$$branch")

RUNTIME_EQUALS == identifier("$$equals")

RUNTIME_USE_MEMO == identifier("useMemo")

RUNTIME_USE_REF == identifier("useRef")

getImportIdentifier(symbol) == symbol

(***************************************************************************)
(* The bindings of the component under rewrite.  A name is that of a local *)
(* binding (a parameter or a variable of the component), of a foreign      *)
(* binding (declared outside the component), or of a global (no binding).  *)
(***************************************************************************)
LocalNames == {"x", "p", "q"}

ForeignNames == {"fa", "fb", "g"}

isForeignBinding(name) == name \in ForeignNames

\* path.scope.getBindingIdentifier(name): the binding's own identifier node.
getBindingIdentifier(name) ==
  IF name \in LocalNames \cup ForeignNames THEN identifier(name) ELSE Undefined

shouldSkipNode(node) == node.c = "skip"

isNestedExpression(node) ==
  node.t \in {"ParenthesizedExpression", "TSAsExpression", "TSNonNullExpression"}

isLiteral(node) ==
  node.t \in {"NumericLiteral", "NullLiteral", "StringLiteral", "BooleanLiteral",
              "BigIntLiteral", "TemplateLiteral"}

(***************************************************************************)
(* Sequential code.  Let([v \in {value} |-> body]) is body with v bound to *)
(* value: `const v = value; body`.  The value is computed once, before the *)
(* body, as the statement of the code computes it before the next one.     *)
(***************************************************************************)
the(S) == CHOOSE e \in S : TRUE

Let(F) == F[the(DOMAIN F)]

(***************************************************************************)
(* OptimizedExpression: expr, deps, constant.  deps is absent, one         *)
(* expression or a list; a says which, d holds the expressions.            *)
(***************************************************************************)
NoDeps == [a |-> "undefined", d |-> <<>>]

OneDep(e) == [a |-> "expression", d |-> <<e>>]

ListDeps(es) == [a |-> "array", d |-> es]

TrueDeps == [a |-> "true", d |-> <<>>]

FalseDeps == [a |-> "false", d |-> <<>>]

optimizedExpr(expr, deps, constant) == [expr |-> expr, deps |-> deps, constant |-> constant]

createDependencies == <<>>

mergeDependencies(target, dependencies) ==
  IF dependencies.a \in {"expression", "array"} THEN target \o dependencies.d ELSE target

(***************************************************************************)
(* OptimizerScope.  Scopes live in opt.scopes and are named by their index *)
(* there; parent is 0 for the root.  optimizedID maps identifier nodes to  *)
(* OptimizedExpressions, constants is a set of identifier nodes.           *)
(***************************************************************************)
EmptyMap == [key \in {} |-> Undefined]

NoScope == 0

RootScope == 1

OptimizerScope(parent, isInLoop) ==
  [parent |-> parent, isInLoop |-> isInLoop,
   memo |-> Undefined, ref |-> Undefined,
   indecesMemo |-> 0, indecesRef |-> 0,
   loop |-> [memo |-> Undefined, ref |-> Undefined, undefined |-> Undefined],
   loopIndex |-> Undefined,
   statements |-> <<>>,
   optimizedID |-> EmptyMap,
   constants |-> {},
   finalized |-> <<>>]

\* new OptimizerScope(ctx, path, parent, isInLoop): the scope joins the tree.
newScope(o, parent, isInLoop) ==
  [o |-> [o EXCEPT !.scopes = Append(@, OptimizerScope(parent, isInLoop))],
   scope |-> Len(o.scopes) + 1]

\* path.scope.generateUidIdentifier(name): a fresh identifier node.
generateUidIdentifier(o, name) ==
  [o |-> [o EXCEPT !.uid = @ + 1], id |-> Node("Identifier", name, o.uid + 1, <<>>)]

createHeader(o, scope, type) ==
  IF type = "ref"
  THEN IF o.scopes[scope].ref = Undefined
       THEN LET g == generateUidIdentifier(o, "ref")
            IN  [o |-> [g.o EXCEPT !.scopes[scope].ref = g.id], id |-> g.id]
       ELSE [o |-> o, id |-> o.scopes[scope].ref]
  ELSE IF o.scopes[scope].memo = Undefined
       THEN LET g == generateUidIdentifier(o, "cache")
            IN  [o |-> [g.o EXCEPT !.scopes[scope].memo = g.id], id |-> g.id]
       ELSE [o |-> o, id |-> o.scopes[scope].memo]

\* createIndex with the two counters confused: the index is read from the
\* counter of the kind, but it is always the memo counter that advances.
createIndexAdvancingMemo(o, scope, type) ==
  LET current == IF type = "memo" THEN o.scopes[scope].indecesMemo
                 ELSE o.scopes[scope].indecesRef
  IN  [o |-> [o EXCEPT !.scopes[scope].indecesMemo = @ + 1],
       index |-> numericLiteral(current)]

createIndex(o, scope, type) ==
  LET current == IF type = "memo" THEN o.scopes[scope].indecesMemo
                 ELSE o.scopes[scope].indecesRef
  IN  [o |-> IF type = "memo"
             THEN [o EXCEPT !.scopes[scope].indecesMemo = @ + 1]
             ELSE [o EXCEPT !.scopes[scope].indecesRef = @ + 1],
       index |-> numericLiteral(current)]

\* type is "memo", "ref" or, for a call that passes no argument, "undefined".
createLoopHeader(o, scope, type) ==
  IF o.scopes[scope].loop[type] = Undefined
  THEN LET g == generateUidIdentifier(o, "loop")
       IN  [o |-> [g.o EXCEPT !.scopes[scope].loop[type] = g.id], id |-> g.id]
  ELSE [o |-> o, id |-> o.scopes[scope].loop[type]]

createLoopIndex(o, scope) ==
  IF o.scopes[scope].loopIndex = Undefined
  THEN LET g == generateUidIdentifier(o, "id")
       IN  [o |-> [g.o EXCEPT !.scopes[scope].loopIndex = g.id], id |-> g.id]
  ELSE [o |-> o, id |-> o.scopes[scope].loopIndex]

push(o, scope, statements) ==
  [o EXCEPT !.scopes[scope].statements = @ \o statements]

\* setOptimized that records nothing.
setOptimizedNowhere(o, scope, key, value) == o

setOptimized(o, scope, key, value) ==
  [o EXCEPT !.scopes[scope].optimizedID =
     [k \in DOMAIN @ \cup {key} |-> IF k = key THEN value ELSE @[k]]]

hasOptimized(o, scope, key) == key \in DOMAIN o.scopes[scope].optimizedID

getOptimized(o, scope, key) == o.scopes[scope].optimizedID[key]

RECURSIVE deleteOptimized(_, _, _)
deleteOptimized(o, current, key) ==
  IF current = NoScope THEN o
  ELSE IF hasOptimized(o, current, key)
       THEN [o EXCEPT !.scopes[current].optimizedID =
               [k \in DOMAIN @ \ {key} |-> @[k]]]
       ELSE deleteOptimized(o, o.scopes[current].parent, key)

\* addConstant that records nothing.
addConstantNowhere(o, scope, value) == o

addConstant(o, scope, value) == [o EXCEPT !.scopes[scope].constants = @ \cup {value}]

hasConstant(o, scope, value) == value \in o.scopes[scope].constants

\* History of the slot allocations: one entry per createIndex call, with the
\* scope and cache kind whose counter gave the index, the header the caller
\* pairs the index with, and what the caller emits for it.
logSlot(o, scope, type, index, header, use) ==
  [o EXCEPT !.log = Append(@, [scope |-> scope, type |-> type, index |-> index.n,
                               header |-> header, use |-> use])]

(***************************************************************************)
(* Optimizer.createMemo                                                    *)
(***************************************************************************)
\* foldCondition that tells identifiers apart by name, not by node.
RECURSIVE foldConditionByName(_, _, _, _)
foldConditionByName(dependencies, i, condition, newSet) ==
  IF i > Len(dependencies) THEN condition
  ELSE LET dependency == dependencies[i]
       IN  IF condition # Undefined /\ dependency # Undefined
           THEN IF dependency.t = "Identifier"
                THEN IF \A seen \in newSet : seen.s # dependency.s
                     THEN foldConditionByName(dependencies, i + 1,
                            logicalExpression("&&", condition, dependency),
                            newSet \cup {dependency})
                     ELSE foldConditionByName(dependencies, i + 1, condition, newSet)
                ELSE foldConditionByName(dependencies, i + 1,
                       logicalExpression("&&", condition, dependency), newSet)
           ELSE IF dependency # Undefined
                THEN foldConditionByName(dependencies, i + 1, dependency,
                       IF dependency.t = "Identifier" THEN newSet \cup {dependency}
                       ELSE newSet)
                ELSE foldConditionByName(dependencies, i + 1, condition, newSet)

\* The guard of a dependency list: a left-nested && chain in list order,
\* undefined entries skipped, identifiers kept once per node.
RECURSIVE foldCondition(_, _, _, _)
foldCondition(dependencies, i, condition, newSet) ==
  IF i > Len(dependencies) THEN condition
  ELSE LET dependency == dependencies[i]
       IN  IF condition # Undefined /\ dependency # Undefined
           THEN IF dependency.t = "Identifier"
                THEN IF dependency \notin newSet
                     THEN foldCondition(dependencies, i + 1,
                            logicalExpression("&&", condition, dependency),
                            newSet \cup {dependency})
                     ELSE foldCondition(dependencies, i + 1, condition, newSet)
                ELSE foldCondition(dependencies, i + 1,
                       logicalExpression("&&", condition, dependency), newSet)
           ELSE IF dependency # Undefined
                THEN foldCondition(dependencies, i + 1, dependency,
                       IF dependency.t = "Identifier" THEN newSet \cup {dependency}
                       ELSE newSet)
                ELSE foldCondition(dependencies, i + 1, condition, newSet)

\* memoCondition without the `dependencies === true` arm: a one-time
\* constant is compared with its cached value like any other expression.
memoConditionAlwaysCompared(dependencies, header, index, current) ==
  IF dependencies.a = "array" THEN foldCondition(dependencies.d, 1, Undefined, {})
  ELSE IF dependencies.a = "expression" THEN dependencies.d[1]
  ELSE callExpression(getImportIdentifier(RUNTIME_EQUALS), <<header, index, current>>)

\* memoCondition without the final arm: nothing is compared with its cached
\* value unless the caller passes the guard.
memoConditionOnlyFromDependencies(dependencies, header, index, current) ==
  IF dependencies.a = "array" THEN foldCondition(dependencies.d, 1, Undefined, {})
  ELSE IF dependencies.a = "expression" THEN dependencies.d[1]
  ELSE Undefined

\* The condition createMemo derives from its dependencies argument.
memoCondition(dependencies, header, index, current) ==
  IF dependencies.a = "array" THEN foldCondition(dependencies.d, 1, Undefined, {})
  ELSE IF dependencies.a = "true" THEN Undefined
  ELSE IF dependencies.a = "expression" THEN dependencies.d[1]
  ELSE callExpression(getImportIdentifier(RUNTIME_EQUALS), <<header, index, current>>)

\* The key of an identifier node in a scope's optimizedID table.  A source
\* occurrence is a node no table has seen; serial makes its key its own, and
\* the key stands for that very node afterwards.  A serial is the uid of a
\* value identifier, which follows the uid of a header: it is at least 2,
\* and no key is a fresh occurrence.
optimizedKey(current, serial) ==
  IF isOccurrence(current) THEN [current EXCEPT !.n = 0 - serial] ELSE current

createMemo(o, current, dependencies, type) ==
  IF current.t = "Identifier" /\ hasOptimized(o, o.scope, current)
  THEN [o |-> o, r |-> getOptimized(o, o.scope, current)]
  ELSE
    Let([h \in {IF o.scopes[o.scope].isInLoop
                THEN createLoopHeader(o, o.scope, "undefined")
                ELSE createHeader(o, o.scope, type)} |->
    Let([ix \in {createIndex(h.o, o.scope, type)} |->
    Let([v \in {generateUidIdentifier(
                  logSlot(ix.o, o.scope, type, ix.index, h.id, "value"), "value")} |->
    Let([condition \in {memoCondition(dependencies, h.id, ix.index, current)} |->
    Let([e \in {IF condition = Undefined
                THEN [o |-> v.o, id |-> memberExpression(h.id, ix.index, TRUE)]
                ELSE IF condition.t = "Identifier" THEN [o |-> v.o, id |-> condition]
                ELSE generateUidIdentifier(v.o, "equals")} |->
      LET scope == o.scope
          pos == memberExpression(h.id, ix.index, TRUE)
          optimized == optimizedExpr(v.id,
                         IF condition = Undefined THEN ListDeps(<<>>) ELSE OneDep(e.id),
                         FALSE)
          guard == IF condition # Undefined /\ condition.t # "Identifier"
                   THEN <<variableDeclarator(e.id, condition)>>
                   ELSE <<>>
          init == conditionalExpression(
                    IF condition # Undefined THEN e.id
                    ELSE binaryExpression("in", ix.index, h.id),
                    pos,
                    assignmentExpression("=", pos, current))
          declaration == variableDeclaration("let",
                           guard \o <<variableDeclarator(v.id, init)>>)
          o1 == IF condition = Undefined THEN addConstant(e.o, scope, v.id) ELSE e.o
          o2 == IF current.t = "Identifier"
                THEN setOptimized(
                       setOptimized(o1, scope, optimizedKey(current, v.id.n), optimized),
                       scope, v.id, optimized)
                ELSE o1
      IN  [o |-> push(o2, scope, <<declaration>>), r |-> optimized]
    ])])])])])

(***************************************************************************)
(* ExprAnalyzer.isConstant: every identifier the expression refers to is   *)
(* foreign, global or in a scope's constants set, and the expression holds *)
(* no hook call, no assignment and no node kind the analyzer does not know.*)
(***************************************************************************)
RECURSIVE isIdentifierConstant(_, _, _)
isIdentifierConstant(o, scope, binding) ==
  IF scope = NoScope THEN FALSE
  ELSE hasConstant(o, scope, binding)
       \/ isIdentifierConstant(o, o.scopes[scope].parent, binding)

RECURSIVE isConstant(_, _)
isConstant(o, node) ==
  IF shouldSkipNode(node) THEN TRUE
  ELSE IF isNestedExpression(node) THEN isConstant(o, node.k[1])
  ELSE IF isLiteral(node) THEN TRUE
  ELSE IF node.t = "Identifier"
       THEN \/ isForeignBinding(node.s)
            \/ getBindingIdentifier(node.s) = Undefined
            \/ isIdentifierConstant(o, o.scope,
                 IF isOccurrence(node) THEN getBindingIdentifier(node.s) ELSE node)
  ELSE IF node.t = "MemberExpression"
       THEN isConstant(o, node.k[1]) /\ (node.s = "computed" => isConstant(o, node.k[2]))
  ELSE IF node.t = "CallExpression"
       THEN node.s = "none" /\ \A i \in 1..Len(node.k) : isConstant(o, node.k[i])
  ELSE IF node.t \in {"ConditionalExpression", "BinaryExpression", "LogicalExpression",
                      "UnaryExpression", "ArrayExpression", "SpreadElement",
                      "ArrowFunctionExpression", "ObjectExpression", "ObjectProperty"}
       THEN \A i \in 1..Len(node.k) : isConstant(o, node.k[i])
  ELSE FALSE

(***************************************************************************)
(* Optimizer: the expression walk.  Every handler takes the optimizer and  *)
(* a node and answers the optimizer after the call (o) with the handler's  *)
(* OptimizedExpression (r).                                                *)
(***************************************************************************)
RECURSIVE optimizeExpression(_, _)
RECURSIVE optimizeStatement(_, _, _)

\* History for the properties: one entry per optimizeExpression or
\* optimizeStatement call, appended when the call returns.  began is the
\* optimizer when the call began, returned the optimizer it returns with;
\* first counts the calls that had returned when this one began.
logCall(began, returned, method, node) ==
  [returned EXCEPT !.calls =
     Append(@, [method |-> method, node |-> node,
                began |-> began.scope, returned |-> returned.scope,
                first |-> Len(began.calls),
                slots |-> <<Len(began.log), Len(returned.log)>>,
                scopes |-> <<Len(began.scopes), Len(returned.scopes)>>])]

\* this.scope = scope
setScope(o, scope) == [o EXCEPT !.scope = scope]

\* createDependency answers undefined for a constant: r is then Nothing.
Nothing == optimizedExpr(Undefined, NoDeps, TRUE)

\* createDependency without the referential-comparison memo of an optimized
\* value.
createDependencyUncompared(o, node) ==
  Let([optimized \in {optimizeExpression(o, node)} |->
    IF optimized.r.constant THEN [o |-> optimized.o, r |-> Nothing]
    ELSE optimized
  ])

\* The dependency table is keyed by source node, and one descent visits a
\* source node once: the lookup of line 216 finds nothing.
createDependency(o, node) ==
  Let([optimized \in {optimizeExpression(o, node)} |->
    IF optimized.r.constant THEN [o |-> optimized.o, r |-> Nothing]
    ELSE IF optimized.r.expr.t = "Identifier"
            /\ hasConstant(optimized.o, optimized.o.scope, optimized.r.expr)
         THEN optimized
         ELSE createMemo(optimized.o, optimized.r.expr, FalseDeps, "memo")
  ])

memoizeIdentifier(o, id) ==
  IF isForeignBinding(id.s) THEN [o |-> o, r |-> optimizedExpr(id, ListDeps(<<>>), TRUE)]
  ELSE Let([binding \in {getBindingIdentifier(id.s)} |->
         IF binding # Undefined THEN createMemo(o, binding, FalseDeps, "memo")
         ELSE [o |-> o, r |-> optimizedExpr(id, ListDeps(<<>>), TRUE)]
       ])

optimizeIdentifier(o, node) == memoizeIdentifier(o, node)

\* Answers o, the rewritten member expression (expr) and its deps, a list.
memoizeMemberExpression(o, node) ==
  IF isConstant(o, node) THEN [o |-> o, expr |-> node, deps |-> <<>>]
  ELSE
    Let([source \in {createDependency(o, node.k[1])} |->
    Let([node1 \in {IF source.r # Nothing THEN [node EXCEPT !.k[1] = source.r.expr]
                    ELSE node} |->
    Let([cond1 \in {IF source.r # Nothing
                    THEN mergeDependencies(createDependencies, source.r.deps)
                    ELSE createDependencies} |->
      IF node.s = "computed"
      THEN Let([property \in {createDependency(source.o, node.k[2])} |->
             IF property.r # Nothing
             THEN [o |-> property.o,
                   expr |-> [node1 EXCEPT !.k[2] = property.r.expr],
                   deps |-> mergeDependencies(cond1, property.r.deps)]
             ELSE [o |-> property.o, expr |-> node1, deps |-> cond1]
           ])
      ELSE [o |-> source.o, expr |-> node1, deps |-> cond1]
    ])])])

optimizeMemberExpression(o, node) ==
  Let([result0 \in {memoizeMemberExpression(o, node)} |->
    createMemo(result0.o, result0.expr, ListDeps(result0.deps), "memo")
  ])

\* createDependency over node.k[from..], left to right: each child that is
\* not constant is replaced by its memoized form and its deps are merged.
RECURSIVE memoizeChildren(_, _, _, _)
memoizeChildren(o, node, i, condition) ==
  IF i > Len(node.k) THEN [o |-> o, node |-> node, deps |-> condition]
  ELSE IF node.k[i].t = "SpreadElement"
       THEN Let([optimized \in {createDependency(o, node.k[i].k[1])} |->
              IF optimized.r # Nothing
              THEN memoizeChildren(optimized.o,
                     [node EXCEPT !.k[i].k[1] = optimized.r.expr], i + 1,
                     mergeDependencies(condition, optimized.r.deps))
              ELSE memoizeChildren(optimized.o, node, i + 1, condition)
            ])
       ELSE Let([optimized \in {createDependency(o, node.k[i])} |->
              IF optimized.r # Nothing
              THEN memoizeChildren(optimized.o,
                     [node EXCEPT !.k[i] = optimized.r.expr], i + 1,
                     mergeDependencies(condition, optimized.r.deps))
              ELSE memoizeChildren(optimized.o, node, i + 1, condition)
            ])

optimizeBinaryExpression(o, node) ==
  IF node.s = "|>" THEN [o |-> o, r |-> optimizedExpr(node, NoDeps, FALSE)]
  ELSE Let([m \in {memoizeChildren(o, node, 1, createDependencies)} |->
         createMemo(m.o, m.node, ListDeps(m.deps), "memo")
       ])

optimizeUnaryExpression(o, node) ==
  Let([optimized \in {createDependency(o, node.k[1])} |->
    IF optimized.r # Nothing
    THEN createMemo(optimized.o, [node EXCEPT !.k[1] = optimized.r.expr],
                    optimized.r.deps, "memo")
    ELSE [o |-> optimized.o, r |-> optimizedExpr(node, NoDeps, FALSE)]
  ])

(***************************************************************************)
(* OptimizerScope: finalization.                                           *)
(***************************************************************************)
RECURSIVE mergeLoop(_, _, _, _)
mergeLoop(statements, i, stack, newStatements) ==
  IF i > Len(statements) THEN newStatements
  ELSE LET value == statements[i]
       IN  IF value.t = "VariableDeclaration" /\ value.s = "let"
           THEN mergeLoop(statements, i + 1, stack \o value.k, newStatements)
           ELSE mergeLoop(statements, i + 1, <<>>,
                  (IF Len(stack) > 0
                   THEN Append(newStatements, variableDeclaration("let", stack))
                   ELSE newStatements) \o <<value>>)

mergeVariableDeclaration(statements) == mergeLoop(statements, 1, <<>>, <<>>)

\* const header = parent.createHeader(type); const index = parent.createIndex(type)
\* Answers o, the parent's header (id) and the index.
reserve(o, parent, type, use) ==
  Let([header \in {createHeader(o, parent, type)} |->
  Let([index \in {createIndex(header.o, parent, type)} |->
    [o |-> logSlot(index.o, parent, type, index.index, header.id, use),
     id |-> header.id, index |-> index.index]
  ])])

\* The header declarations answer o and a list of declarations; the list is
\* empty where the code answers undefined.
getMemoDeclarations(o, scope) ==
  IF o.scopes[scope].memo # Undefined
  THEN IF o.scopes[scope].parent # NoScope
       THEN Let([slot \in {reserve(o, o.scopes[scope].parent, "memo", "branch")} |->
            Let([own \in {createHeader(slot.o, scope, "memo")} |->
              [o |-> own.o,
               d |-> <<variableDeclaration("let", <<variableDeclarator(own.id,
                        callExpression(getImportIdentifier(RUNTIME_BRANCH),
                          <<slot.id, slot.index,
                            numericLiteral(own.o.scopes[scope].indecesMemo)>>))>>)>>]
            ])])
       ELSE [o |-> o,
             d |-> <<variableDeclaration("let", <<variableDeclarator(o.scopes[scope].memo,
                      callExpression(getImportIdentifier(RUNTIME_CACHE),
                        <<getImportIdentifier(RUNTIME_USE_MEMO),
                          numericLiteral(o.scopes[scope].indecesMemo)>>))>>)>>]
  ELSE [o |-> o, d |-> <<>>]

getRefDeclarations(o, scope) ==
  IF o.scopes[scope].ref # Undefined
  THEN IF o.scopes[scope].parent # NoScope
       THEN Let([slot \in {reserve(o, o.scopes[scope].parent, "ref", "branch")} |->
            Let([own \in {createHeader(slot.o, scope, "ref")} |->
              [o |-> own.o,
               d |-> <<variableDeclaration("let", <<variableDeclarator(own.id,
                        callExpression(getImportIdentifier(RUNTIME_BRANCH),
                          <<slot.id, slot.index,
                            numericLiteral(own.o.scopes[scope].indecesRef)>>))>>)>>]
            ])])
       ELSE [o |-> o,
             d |-> <<variableDeclaration("let", <<variableDeclarator(o.scopes[scope].ref,
                      callExpression(getImportIdentifier(RUNTIME_REF),
                        <<getImportIdentifier(RUNTIME_USE_REF),
                          numericLiteral(o.scopes[scope].indecesRef)>>))>>)>>]
  ELSE [o |-> o, d |-> <<>>]

\* Answers o and d, a list holding the declaration, or empty for undefined.
getLoopMemoDeclaration(o, scope) ==
  IF o.scopes[scope].parent = NoScope THEN [o |-> o, d |-> <<>>]
  ELSE Let([slot \in {reserve(o, o.scopes[scope].parent, "memo", "loop")} |->
       Let([id \in {createLoopIndex(slot.o, scope)} |->
       Let([own \in {createHeader(id.o, scope, "memo")} |->
         [o |-> own.o,
          d |-> <<variableDeclaration("let",
                   <<variableDeclarator(own.id,
                       callExpression(getImportIdentifier(RUNTIME_BRANCH),
                         <<slot.id, slot.index, numericLiteral(0)>>)),
                     variableDeclarator(id.id, numericLiteral(0))>>)>>]
       ])])])

getLoopRefDeclaration(o, scope) ==
  IF o.scopes[scope].parent = NoScope THEN [o |-> o, d |-> <<>>]
  ELSE Let([slot \in {reserve(o, o.scopes[scope].parent, "ref", "loop")} |->
       Let([id \in {createLoopIndex(slot.o, scope)} |->
       Let([own \in {createHeader(id.o, scope, "ref")} |->
         [o |-> own.o,
          d |-> <<variableDeclaration("let",
                   <<variableDeclarator(own.id,
                       callExpression(getImportIdentifier(RUNTIME_BRANCH),
                         <<slot.id, slot.index, numericLiteral(0)>>)),
                     variableDeclarator(id.id, numericLiteral(0))>>)>>]
       ])])])

getLoopMemoHeaderDeclaration(o, scope) ==
  IF o.scopes[scope].loop.memo # Undefined
  THEN Let([header \in {createHeader(o, scope, "memo")} |->
       Let([index \in {createLoopIndex(header.o, scope)} |->
       Let([localIndex \in {generateUidIdentifier(index.o, "loopId")} |->
       Let([own \in {createLoopHeader(localIndex.o, scope, "memo")} |->
         [o |-> own.o,
          d |-> <<variableDeclaration("let",
                   <<variableDeclarator(localIndex.id, updateExpression("++", index.id)),
                     variableDeclarator(own.id,
                       callExpression(getImportIdentifier(RUNTIME_BRANCH),
                         <<header.id, localIndex.id,
                           numericLiteral(own.o.scopes[scope].indecesMemo)>>))>>)>>]
       ])])])])
  ELSE [o |-> o, d |-> <<>>]

getLoopRefHeaderDeclaration(o, scope) ==
  IF o.scopes[scope].loop.ref # Undefined
  THEN Let([header \in {createHeader(o, scope, "ref")} |->
       Let([index \in {createLoopIndex(header.o, scope)} |->
       Let([localIndex \in {generateUidIdentifier(index.o, "loopId")} |->
       Let([own \in {createLoopHeader(localIndex.o, scope, "ref")} |->
         [o |-> own.o,
          d |-> <<variableDeclaration("let",
                   <<variableDeclarator(localIndex.id, updateExpression("++", index.id)),
                     variableDeclarator(own.id,
                       callExpression(getImportIdentifier(RUNTIME_BRANCH),
                         <<header.id, localIndex.id,
                           numericLiteral(own.o.scopes[scope].indecesRef)>>))>>)>>]
       ])])])])
  ELSE [o |-> o, d |-> <<>>]

\* History of the finalizations: one entry per getStatements call on the
\* scope, with the list the call answered, the headers it began with, and
\* the scope's pushed statements and counters then.
logFinalized(o, scope, statements, headers) ==
  [o EXCEPT !.scopes[scope].finalized =
     Append(@, [statements |-> statements,
                headers |-> headers,
                pushed |-> o.scopes[scope].statements,
                indecesMemo |-> o.scopes[scope].indecesMemo,
                indecesRef |-> o.scopes[scope].indecesRef])]

\* Answers o and the scope's finalized statement list.
getStatements(o, scope) ==
  Let([memoHeader \in {IF o.scopes[scope].isInLoop
                       THEN getLoopMemoHeaderDeclaration(o, scope)
                       ELSE getMemoDeclarations(o, scope)} |->
  Let([refHeader \in {IF o.scopes[scope].isInLoop
                      THEN getLoopRefHeaderDeclaration(memoHeader.o, scope)
                      ELSE getRefDeclarations(memoHeader.o, scope)} |->
  Let([statements \in {mergeVariableDeclaration(
                         memoHeader.d \o refHeader.d \o o.scopes[scope].statements)} |->
    [o |-> logFinalized(refHeader.o, scope, statements, memoHeader.d \o refHeader.d),
     statements |-> statements]
  ])])])

(***************************************************************************)
(* Optimizer: expressions that open child scopes, hook calls, the rest.    *)
(***************************************************************************)
\* optimizeConditionalExpression finalizing the alternate before the consequent.
optimizeConditionalExpressionAlternateFirst(o, node) ==
  Let([id \in {generateUidIdentifier(o, "value")} |->
  Let([parent \in {o.scope} |->
  Let([optimizedTest \in {optimizeExpression(id.o, node.k[1])} |->
  Let([consequent \in {newScope(optimizedTest.o, parent, FALSE)} |->
  Let([optimizedConsequent \in {optimizeExpression(
                               setScope(consequent.o, consequent.scope), node.k[2])} |->
  Let([alternate \in {newScope(setScope(optimizedConsequent.o, parent), parent, FALSE)} |->
  Let([optimizedAlternate \in {optimizeExpression(
                              setScope(alternate.o, alternate.scope), node.k[3])} |->
  Let([o1 \in {push(setScope(optimizedAlternate.o, parent), consequent.scope,
                 <<expressionStatement(
                     assignmentExpression("=", id.id, optimizedConsequent.r.expr))>>)} |->
  Let([o2 \in {push(o1, alternate.scope,
                 <<expressionStatement(
                     assignmentExpression("=", id.id, optimizedAlternate.r.expr))>>)} |->
  Let([as \in {getStatements(o2, alternate.scope)} |->
  Let([cs \in {getStatements(as.o, consequent.scope)} |->
    [o |-> push(cs.o, cs.o.scope,
             <<variableDeclaration("let", <<variableDeclarator(id.id, Undefined)>>),
               ifElseStatement(optimizedTest.r.expr,
                               blockStatement(cs.statements),
                               blockStatement(as.statements))>>),
     r |-> optimizedExpr(id.id, NoDeps, FALSE)]
  ])])])])])])])])])])])

optimizeConditionalExpression(o, node) ==
  Let([id \in {generateUidIdentifier(o, "value")} |->
  Let([parent \in {o.scope} |->
  Let([optimizedTest \in {optimizeExpression(id.o, node.k[1])} |->
  Let([consequent \in {newScope(optimizedTest.o, parent, FALSE)} |->
  Let([optimizedConsequent \in {optimizeExpression(
                               setScope(consequent.o, consequent.scope), node.k[2])} |->
  Let([alternate \in {newScope(setScope(optimizedConsequent.o, parent), parent, FALSE)} |->
  Let([optimizedAlternate \in {optimizeExpression(
                              setScope(alternate.o, alternate.scope), node.k[3])} |->
  Let([o1 \in {push(setScope(optimizedAlternate.o, parent), consequent.scope,
                 <<expressionStatement(
                     assignmentExpression("=", id.id, optimizedConsequent.r.expr))>>)} |->
  Let([o2 \in {push(o1, alternate.scope,
                 <<expressionStatement(
                     assignmentExpression("=", id.id, optimizedAlternate.r.expr))>>)} |->
  Let([cs \in {getStatements(o2, consequent.scope)} |->
  Let([as \in {getStatements(cs.o, alternate.scope)} |->
    [o |-> push(as.o, as.o.scope,
             <<variableDeclaration("let", <<variableDeclarator(id.id, Undefined)>>),
               ifElseStatement(optimizedTest.r.expr,
                               blockStatement(cs.statements),
                               blockStatement(as.statements))>>),
     r |-> optimizedExpr(id.id, NoDeps, FALSE)]
  ])])])])])])])])])])])

\* logicalTest with the `??` case missing: the operator falls to the default.
logicalTestWithoutNullish(operator, id) ==
  IF operator = "||" THEN unaryExpression("!", id) ELSE id

logicalTest(operator, id) ==
  IF operator = "??" THEN binaryExpression("==", id, nullLiteral)
  ELSE IF operator = "||" THEN unaryExpression("!", id)
  ELSE id

optimizeLogicalExpression(o, node) ==
  Let([id \in {generateUidIdentifier(o, "condition")} |->
  Let([parent \in {o.scope} |->
  Let([left \in {optimizeExpression(id.o, node.k[1])} |->
  Let([rightScope \in {newScope(left.o, parent, FALSE)} |->
  Let([right \in {optimizeExpression(setScope(rightScope.o, rightScope.scope),
                                   node.k[2])} |->
  Let([test \in {logicalTest(node.s, id.id)} |->
  Let([o1 \in {push(setScope(right.o, parent), rightScope.scope,
                 <<expressionStatement(
                     assignmentExpression("=", id.id, right.r.expr))>>)} |->
  Let([rs \in {getStatements(o1, rightScope.scope)} |->
    [o |-> push(rs.o, rs.o.scope,
             <<variableDeclaration("let", <<variableDeclarator(id.id, left.r.expr)>>),
               ifStatement(test, blockStatement(rs.statements))>>),
     r |-> optimizedExpr(id.id, NoDeps, FALSE)]
  ])])])])])])])])

\* A call node's callee is k[1], its arguments k[2..].
optimizeEffect(o, node) ==
  IF Len(node.k) >= 3
  THEN Let([optimizedArray \in {optimizeExpression(o, node.k[3])} |->
         [o |-> optimizedArray.o,
          r |-> optimizedExpr(
                  [node EXCEPT !.k[3] = arrayExpression(<<optimizedArray.r.expr>>)],
                  optimizedArray.r.deps, FALSE)]
       ])
  ELSE IF Len(node.k) = 2
  THEN Let([optimized \in {optimizeExpression(o, node.k[2])} |->
         [o |-> optimized.o,
          r |-> optimizedExpr(
                  [node EXCEPT !.k = <<node.k[1], optimized.r.expr,
                                       arrayExpression(<<optimized.r.expr>>)>>],
                  optimized.r.deps, FALSE)]
       ])
  ELSE [o |-> o, r |-> optimizedExpr(node, NoDeps, FALSE)]

optimizeCallback(o, node) ==
  IF Len(node.k) >= 3
  THEN Let([dependency \in {optimizeExpression(o, node.k[3])} |->
         createMemo(dependency.o, node.k[2], dependency.r.deps, "memo")
       ])
  ELSE IF Len(node.k) = 2 THEN optimizeExpression(o, node.k[2])
  ELSE [o |-> o, r |-> optimizedExpr(node, NoDeps, FALSE)]

\* optimizeMemo that never reads a supplied dependency array.
optimizeMemoFromCallback(o, node) ==
  IF Len(node.k) >= 2
  THEN Let([optimized \in {optimizeExpression(o, node.k[2])} |->
         createMemo(optimized.o, callExpression(optimized.r.expr, <<>>),
                    optimized.r.deps, "memo")
       ])
  ELSE [o |-> o, r |-> optimizedExpr(node, NoDeps, FALSE)]

optimizeMemo(o, node) ==
  IF Len(node.k) >= 3
  THEN Let([dependency \in {optimizeExpression(o, node.k[3])} |->
         createMemo(dependency.o, callExpression(node.k[2], <<>>),
                    dependency.r.deps, "memo")
       ])
  ELSE IF Len(node.k) = 2
  THEN Let([optimized \in {optimizeExpression(o, node.k[2])} |->
         createMemo(optimized.o, callExpression(optimized.r.expr, <<>>),
                    optimized.r.deps, "memo")
       ])
  ELSE [o |-> o, r |-> optimizedExpr(node, NoDeps, FALSE)]

optimizeRef(o, node) ==
  LET arg == IF Len(node.k) >= 2 THEN node.k[2] ELSE Undefined
      init == IF arg = Undefined THEN Undefined
              ELSE IF arg.t = "SpreadElement"
                   THEN memberExpression(arg.k[1], numericLiteral(0), TRUE)
                   ELSE arg
      expr == objectExpression(<<objectProperty(identifier("current"),
                IF init # Undefined THEN init
                ELSE unaryExpression("void", numericLiteral(0)))>>)
  IN  createMemo(o, expr, TrueDeps, "ref")

\* Answers o, the call with its callee rewritten (node) and the deps.
optimizeHookCallee(o, node, condition) ==
  IF node.k[1].t = "MemberExpression"
  THEN Let([optimizedCallee \in {memoizeMemberExpression(o, node.k[1])} |->
         [o |-> optimizedCallee.o,
          node |-> [node EXCEPT !.k[1] = optimizedCallee.expr],
          deps |-> mergeDependencies(condition, ListDeps(optimizedCallee.deps))]
       ])
  ELSE Let([optimizedCallee \in {createDependency(o, node.k[1])} |->
         IF optimizedCallee.r # Nothing
         THEN [o |-> optimizedCallee.o,
               node |-> [node EXCEPT !.k[1] = optimizedCallee.r.expr],
               deps |-> mergeDependencies(condition, optimizedCallee.r.deps)]
         ELSE [o |-> optimizedCallee.o, node |-> node, deps |-> condition]
       ])

\* optimizeHookArguments that leaves every argument as written.
optimizeHookArgumentsSkipped(o, node, condition) ==
  [o |-> o, node |-> node, deps |-> condition]

optimizeHookArguments(o, node, condition) == memoizeChildren(o, node, 2, condition)

optimizeCustomHookCall(o, node, hookType) ==
  Let([callee \in {IF hookType = "none"
                   THEN optimizeHookCallee(o, node, createDependencies)
                   ELSE [o |-> o, node |-> node, deps |-> createDependencies]} |->
  Let([args \in {optimizeHookArguments(callee.o, callee.node, callee.deps)} |->
    IF hookType = "custom"
    THEN [o |-> args.o, r |-> optimizedExpr(args.node, ListDeps(args.deps), FALSE)]
    ELSE createMemo(args.o, args.node, ListDeps(args.deps), "memo")
  ])])

\* node.s is what getHookCallType answers for the call.
optimizeCallExpression(o, node) ==
  CASE node.s = "callback" -> optimizeCallback(o, node)
    [] node.s = "effect" -> optimizeEffect(o, node)
    [] node.s = "memo" -> optimizeMemo(o, node)
    [] node.s = "ref" -> optimizeRef(o, node)
    [] node.s \in {"custom", "none"} -> optimizeCustomHookCall(o, node, node.s)
    [] OTHER -> [o |-> o, r |-> optimizedExpr(node, NoDeps, FALSE)]

\* memoizeIdentifier over the function's free variables; only deps are kept.
RECURSIVE memoizeBindings(_, _, _, _)
memoizeBindings(o, bindings, i, dependencies) ==
  IF i > Len(bindings) THEN [o |-> o, deps |-> dependencies]
  ELSE Let([optimized \in {memoizeIdentifier(o, bindings[i])} |->
         memoizeBindings(optimized.o, bindings, i + 1,
                         mergeDependencies(dependencies, optimized.r.deps))
       ])

optimizeFunctionExpression(o, node) ==
  Let([m \in {memoizeBindings(o, node.k, 1, createDependencies)} |->
    createMemo(m.o, node, ListDeps(m.deps), "memo")
  ])

\* The scopes from current up to the root that hold an entry for key.
RECURSIVE holders(_, _, _)
holders(o, current, key) ==
  IF current = NoScope THEN {}
  ELSE (IF hasOptimized(o, current, key) THEN {current} ELSE {})
       \cup holders(o, o.scopes[current].parent, key)

\* History of the invalidations: one entry per deleteOptimized call of
\* optimizeLVal, with the scopes of the chain that hold the binding after it.
logDirty(o, binding) ==
  [o EXCEPT !.dirty = Append(@, [scope |-> o.scope, binding |-> binding,
                                 holders |-> holders(o, o.scope, binding)])]

\* Answers o, the rewritten LVal (expr) and its deps, a list.
optimizeLVal(o, node, dirty) ==
  IF node.t = "Identifier"
  THEN Let([binding \in {getBindingIdentifier(node.s)} |->
         [o |-> IF dirty /\ binding # Undefined
                THEN logDirty(deleteOptimized(o, o.scope, binding), binding)
                ELSE o,
          expr |-> node, deps |-> <<>>]
       ])
  ELSE IF node.t = "MemberExpression" THEN memoizeMemberExpression(o, node)
  ELSE [o |-> o, expr |-> node, deps |-> <<>>]

optimizeAssignmentExpression(o, node) ==
  Let([left \in {optimizeLVal(o, node.k[1], TRUE)} |->
  Let([dependencies \in {mergeDependencies(createDependencies, ListDeps(left.deps))} |->
  Let([right \in {createDependency(left.o, node.k[2])} |->
    IF right.r # Nothing
    THEN [o |-> right.o,
          r |-> optimizedExpr([node EXCEPT !.k = <<left.expr, right.r.expr>>],
                  ListDeps(mergeDependencies(dependencies, right.r.deps)), FALSE)]
    ELSE [o |-> right.o,
          r |-> optimizedExpr([node EXCEPT !.k[1] = left.expr],
                              ListDeps(dependencies), FALSE)]
  ])])])

optimizeArrayExpression(o, node) ==
  Let([m \in {memoizeChildren(o, node, 1, createDependencies)} |->
    createMemo(m.o, m.node, ListDeps(m.deps), "memo")
  ])

RECURSIVE optimizeSequenceLoop(_, _, _)
optimizeSequenceLoop(o, node, i) ==
  IF i > Len(node.k) THEN [o |-> o, node |-> node]
  ELSE Let([result0 \in {optimizeExpression(o, node.k[i])} |->
         optimizeSequenceLoop(result0.o, [node EXCEPT !.k[i] = result0.r.expr], i + 1)
       ])

optimizeSequenceExpression(o, node) ==
  Let([m \in {optimizeSequenceLoop(o, node, 1)} |->
    [o |-> m.o, r |-> optimizedExpr(m.node, NoDeps, FALSE)]
  ])

\* The node kinds of the component bodies this model walks; template
\* literals, objects, new expressions and JSX do not occur in them.
optimizeExpression(o, node) ==
  Let([answer \in {
    IF shouldSkipNode(node) THEN [o |-> o, r |-> optimizedExpr(node, NoDeps, TRUE)]
    ELSE IF isNestedExpression(node) THEN optimizeExpression(o, node.k[1])
    ELSE IF isLiteral(node) /\ node.t # "TemplateLiteral"
         THEN [o |-> o, r |-> optimizedExpr(node, NoDeps, TRUE)]
    ELSE IF isConstant(o, node) THEN createMemo(o, node, TrueDeps, "memo")
    ELSE CASE node.t = "Identifier" -> optimizeIdentifier(o, node)
           [] node.t = "MemberExpression" -> optimizeMemberExpression(o, node)
           [] node.t = "ConditionalExpression" -> optimizeConditionalExpression(o, node)
           [] node.t = "BinaryExpression" -> optimizeBinaryExpression(o, node)
           [] node.t = "LogicalExpression" -> optimizeLogicalExpression(o, node)
           [] node.t = "UnaryExpression" -> optimizeUnaryExpression(o, node)
           [] node.t = "CallExpression" -> optimizeCallExpression(o, node)
           [] node.t = "ArrowFunctionExpression" -> optimizeFunctionExpression(o, node)
           [] node.t = "AssignmentExpression" -> optimizeAssignmentExpression(o, node)
           [] node.t = "ArrayExpression" -> optimizeArrayExpression(o, node)
           [] node.t = "SequenceExpression" -> optimizeSequenceExpression(o, node)
           [] OTHER -> [o |-> o, r |-> optimizedExpr(node, NoDeps, TRUE)]
  } |-> [answer EXCEPT !.o = logCall(o, @, "optimizeExpression", node)]])

(***************************************************************************)
(* Optimizer: the statement walk.  optimizeStatement answers the optimizer *)
(* after the call; the handlers that rewrite their node in place answer o  *)
(* and the rewritten node.                                                 *)
(***************************************************************************)
optimizeExpressionStatement(o, node) ==
  Let([optimized \in {optimizeExpression(o, node.k[1])} |->
    [o |-> optimized.o, node |-> [node EXCEPT !.k[1] = optimized.r.expr]]
  ])

RECURSIVE optimizeVariableDeclaration(_, _, _)
optimizeVariableDeclaration(o, node, i) ==
  IF i > Len(node.k) THEN o
  ELSE Let([declaration \in {node.k[i]} |->
       Let([init \in {IF declaration.k[2] # Undefined
                      THEN optimizeExpression(o, declaration.k[2])
                      ELSE [o |-> o, r |-> optimizedExpr(Undefined, NoDeps, FALSE)]} |->
         optimizeVariableDeclaration(
           push(init.o, init.o.scope,
             <<variableDeclaration(node.s,
                 <<variableDeclarator(declaration.k[1], init.r.expr)>>)>>),
           node, i + 1)
       ])])

optimizeReturnStatement(o, node) ==
  IF node.k[1] # Undefined
  THEN Let([optimized \in {optimizeExpression(o, node.k[1])} |->
         [o |-> optimized.o, node |-> [node EXCEPT !.k[1] = optimized.r.expr]]
       ])
  ELSE [o |-> o, node |-> node]

optimizeThrowStatement(o, node) ==
  Let([optimized \in {optimizeExpression(o, node.k[1])} |->
    [o |-> optimized.o, node |-> [node EXCEPT !.k[1] = optimized.r.expr]]
  ])

\* optimizeStatement(statements[i], false) for i = from .. Len(statements).
RECURSIVE optimizeStatements(_, _, _)
optimizeStatements(o, statements, i) ==
  IF i > Len(statements) THEN o
  ELSE Let([o1 \in {optimizeStatement(o, statements[i], FALSE)} |->
         optimizeStatements(o1, statements, i + 1)
       ])

optimizeBlock(o, node) ==
  IF shouldSkipNode(node) THEN o ELSE optimizeStatements(o, node.k, 1)

optimizeBlockStatement(o, node, topBlock) ==
  IF topBlock THEN optimizeBlock(o, node)
  ELSE Let([parent \in {o.scope} |->
       Let([block \in {newScope(o, parent, FALSE)} |->
       Let([o1 \in {optimizeBlock(setScope(block.o, block.scope), node)} |->
       Let([bs \in {getStatements(setScope(o1, parent), block.scope)} |->
         push(bs.o, bs.o.scope, <<blockStatement(bs.statements)>>)
       ])])])])

optimizeIfStatement(o, node) ==
  Let([optimized \in {optimizeExpression(o, node.k[1])} |->
  Let([parent \in {optimized.o.scope} |->
  Let([consequent \in {newScope(optimized.o, parent, FALSE)} |->
  Let([o1 \in {optimizeStatement(setScope(consequent.o, consequent.scope),
                                  node.k[2], TRUE)} |->
  Let([cs \in {getStatements(setScope(o1, parent), consequent.scope)} |->
    IF Len(node.k) >= 3
    THEN Let([alternate \in {newScope(cs.o, parent, FALSE)} |->
         Let([o2 \in {optimizeStatement(setScope(alternate.o, alternate.scope),
                                         node.k[3], TRUE)} |->
         Let([as \in {getStatements(setScope(o2, parent), alternate.scope)} |->
           push(as.o, as.o.scope,
             <<ifElseStatement(optimized.r.expr, blockStatement(cs.statements),
                               blockStatement(as.statements))>>)
         ])])])
    ELSE push(cs.o, cs.o.scope,
           <<ifStatement(optimized.r.expr, blockStatement(cs.statements))>>)
  ])])])])])

\* The body of a loop node is its last child.
optimizeLoopStatement(o, node) ==
  Let([parent \in {o.scope} |->
  Let([loop \in {newScope(o, parent, TRUE)} |->
  Let([o1 \in {optimizeStatement(setScope(loop.o, loop.scope),
                                  node.k[Len(node.k)], TRUE)} |->
  Let([ls \in {getStatements(setScope(o1, parent), loop.scope)} |->
  Let([memoDeclaration \in {getLoopMemoDeclaration(ls.o, loop.scope)} |->
    [o |-> push(memoDeclaration.o, memoDeclaration.o.scope, memoDeclaration.d),
     node |-> [node EXCEPT !.k[Len(node.k)] = blockStatement(ls.statements)]]
  ])])])])])

optimizeForXStatement(o, node) ==
  Let([optimized \in {optimizeExpression(o, node.k[2])} |->
    optimizeLoopStatement(optimized.o, [node EXCEPT !.k[2] = optimized.r.expr])
  ])

\* A switch node's discriminant is k[1], its cases k[2..]; a case's test is
\* k[1], its consequent statements k[2..].
RECURSIVE optimizeSwitchCases(_, _, _, _)
optimizeSwitchCases(o, node, i, parent) ==
  IF i > Len(node.k) THEN [o |-> setScope(o, parent), node |-> node]
  ELSE Let([current \in {node.k[i]} |->
       Let([scope \in {newScope(o, parent, FALSE)} |->
       Let([o1 \in {optimizeStatements(setScope(scope.o, scope.scope),
                                        Tail(current.k), 1)} |->
       Let([ss \in {getStatements(setScope(o1, parent), scope.scope)} |->
         optimizeSwitchCases(ss.o,
           [node EXCEPT !.k[i].k = <<current.k[1]>> \o ss.statements],
           i + 1, parent)
       ])])])])

optimizeSwitchStatement(o, node) ==
  Let([newDiscriminant \in {optimizeExpression(o, node.k[1])} |->
    optimizeSwitchCases(newDiscriminant.o,
      [node EXCEPT !.k[1] = newDiscriminant.r.expr], 2, newDiscriminant.o.scope)
  ])

\* optimizeBlock over a block in a scope of its own: answers o, back in
\* parent, and the block of the scope's finalized statements.
optimizeTryBlock(o, node, parent) ==
  Let([scope \in {newScope(o, parent, FALSE)} |->
  Let([o1 \in {optimizeBlock(setScope(scope.o, scope.scope), node)} |->
  Let([statements \in {getStatements(setScope(o1, parent), scope.scope)} |->
    [o |-> statements.o, block |-> blockStatement(statements.statements)]
  ])])])

\* A try node's children: block, handler (a catch clause), finalizer; the
\* last two are Undefined when absent.
optimizeTryStatement(o, node) ==
  Let([parent \in {o.scope} |->
  Let([tryBlock \in {optimizeTryBlock(o, node.k[1], parent)} |->
  Let([handler \in {IF node.k[2] # Undefined
                    THEN optimizeTryBlock(tryBlock.o, node.k[2].k[1], parent)
                    ELSE [o |-> tryBlock.o, block |-> Undefined]} |->
  Let([finalizer \in {IF node.k[3] # Undefined
                      THEN optimizeTryBlock(handler.o, node.k[3], parent)
                      ELSE [o |-> handler.o, block |-> Undefined]} |->
    [o |-> finalizer.o,
     node |-> [node EXCEPT
                 !.k[1] = tryBlock.block,
                 !.k[2] = IF handler.block # Undefined
                          THEN [@ EXCEPT !.k[1] = handler.block] ELSE @,
                 !.k[3] = IF finalizer.block # Undefined THEN finalizer.block ELSE @]]
  ])])])])

\* optimizeLabeledStatement without `this.scope = parent` after the body.
optimizeLabeledStatementInBlock(o, node) ==
  Let([parent \in {o.scope} |->
  Let([block \in {newScope(o, parent, FALSE)} |->
  Let([o1 \in {optimizeStatement(setScope(block.o, block.scope), node.k[1], FALSE)} |->
  Let([bs \in {getStatements(o1, block.scope)} |->
    [o |-> bs.o, node |-> [node EXCEPT !.k[1] = blockStatement(bs.statements)]]
  ])])])])

optimizeLabeledStatement(o, node) ==
  Let([parent \in {o.scope} |->
  Let([block \in {newScope(o, parent, FALSE)} |->
  Let([o1 \in {optimizeStatement(setScope(block.o, block.scope), node.k[1], FALSE)} |->
  Let([bs \in {getStatements(setScope(o1, parent), block.scope)} |->
    [o |-> bs.o, node |-> [node EXCEPT !.k[1] = blockStatement(bs.statements)]]
  ])])])])

isForXStatement(node) == node.t \in {"ForInStatement", "ForOfStatement"}

isLoop(node) ==
  node.t \in {"DoWhileStatement", "ForInStatement", "ForStatement", "ForOfStatement",
              "WhileStatement"}

\* The handlers that rewrite the node in place and fall through to the push.
rewriteStatement(o, node) ==
  CASE node.t = "ExpressionStatement" -> optimizeExpressionStatement(o, node)
    [] node.t = "ReturnStatement" -> optimizeReturnStatement(o, node)
    [] node.t = "ThrowStatement" -> optimizeThrowStatement(o, node)
    [] isForXStatement(node) -> optimizeForXStatement(o, node)
    [] isLoop(node) /\ ~isForXStatement(node) -> optimizeLoopStatement(o, node)
    [] node.t = "SwitchStatement" -> optimizeSwitchStatement(o, node)
    [] node.t = "TryStatement" -> optimizeTryStatement(o, node)
    [] node.t = "LabeledStatement" -> optimizeLabeledStatement(o, node)
    [] OTHER -> [o |-> o, node |-> node]

optimizeStatement(o, node, topBlock) ==
  Let([returned \in {
    IF shouldSkipNode(node) THEN o
    ELSE CASE node.t = "VariableDeclaration" -> optimizeVariableDeclaration(o, node, 1)
           [] node.t = "BlockStatement" -> optimizeBlockStatement(o, node, topBlock)
           [] node.t = "IfStatement" -> optimizeIfStatement(o, node)
           [] OTHER -> Let([rewritten \in {rewriteStatement(o, node)} |->
                         push(rewritten.o, rewritten.o.scope, <<rewritten.node>>)
                       ])
  } |-> logCall(o, returned, "optimizeStatement", node)])

(***************************************************************************)
(* Component bodies.  The statements a body is made of, by the branch of   *)
(* optimizeStatement that handles them.  x, p and q are bindings of the    *)
(* component, fa, fb and g foreign bindings, use, useRef and useG hooks.   *)
(***************************************************************************)
x == reference("x")

call(callee, arguments) == hookCall("none", reference(callee), arguments)

useRef == hookCall("ref", reference("useRef"), <<>>)

read(callee, name) == expressionStatement(call(callee, <<reference(name)>>))

assign(name, right) == expressionStatement(assignmentExpression("=", reference(name), right))

LogicalOperators == {"||", "&&", "??"}

ExpressionStatements ==
  { read("fa", "x"),
    assign("x", binaryExpression("+", x, numericLiteral(1))),
    expressionStatement(arrayExpression(<<updateExpression("++", x), call("fa", <<x>>)>>)),
    expressionStatement(reference("g")),
    expressionStatement(numericLiteral(1)),
    expressionStatement(useRef) }
  \cup { expressionStatement(logicalExpression(op, call("fa", <<reference("p")>>),
                                                call("fb", <<reference("q")>>)))
         : op \in LogicalOperators }

VariableDeclarations ==
  { variableDeclaration("let", <<variableDeclarator(identifier("q"), x)>>) }

ReturnStatements == { returnStatement(x) }

ThrowStatements == { throwStatement(call("fa", <<reference("g")>>)) }

BlockStatements ==
  { blockStatement(<<read("fa", "x"), assign("x", numericLiteral(1))>>),
    blockStatement(<<variableDeclaration("let", <<variableDeclarator(identifier("q"), x)>>)>>) }

IfStatements ==
  { ifElseStatement(x, blockStatement(<<read("fa", "x")>>), read("fb", "q")) }

ForXStatements ==
  { forOfStatement(identifier("q"), reference("p"), blockStatement(<<read("fa", "q")>>)) }

LoopStatements ==
  { whileStatement(x, blockStatement(
      <<read("fa", "x"), expressionStatement(useRef),
        ifStatement(x, blockStatement(<<read("fb", "x")>>))>>)) }

SwitchStatements ==
  { switchStatement(x, <<switchCase(numericLiteral(1), <<read("fa", "x")>>)>>) }

TryStatements ==
  { tryStatement(blockStatement(<<read("fa", "x")>>),
                 catchClause(blockStatement(<<read("fb", "x")>>)),
                 blockStatement(<<>>)) }

LabeledStatements == { labeledStatement("l", blockStatement(<<read("fa", "x")>>)) }

SkippedStatements == { skipped(read("fa", "x")) }

(***************************************************************************)
(* The machine: optimizeFunctionComponent over a component body.  Each     *)
(* step visits the body's next statement (optimizeBlock's loop); the last  *)
(* step replaces the body by the root scope's finalized statements.        *)
(***************************************************************************)
MaxStatements == 2

Optimizer ==
  [scopes |-> <<OptimizerScope(NoScope, FALSE)>>, scope |-> RootScope, uid |-> 0,
   log |-> <<>>, dirty |-> <<>>, calls |-> <<>>]

\* No method has been driven on its own.
NoCall ==
  [method |-> "", current |-> Undefined, dependencies |-> NoDeps, type |-> "",
   answer |-> optimizedExpr(Undefined, NoDeps, FALSE)]

Init ==
  /\ opt = Optimizer
  /\ visited = <<>>
  /\ result = <<>>
  /\ pc = "walk"
  /\ invocation = NoCall

\* One pass of optimizeBlock's loop over the component body:
\* optimizeStatement(statement, false) on the body's next statement.
Visit(statement) ==
  /\ opt' = optimizeStatement(opt, statement, FALSE)
  /\ visited' = Append(visited, statement)
  /\ UNCHANGED <<result, pc, invocation>>

\* A statement whose handler rewrites it in the current scope.
VisitStatement ==
  /\ pc = "walk"
  /\ Len(visited) < MaxStatements
  /\ \E statement \in ExpressionStatements \cup VariableDeclarations
                       \cup ReturnStatements \cup ThrowStatements : Visit(statement)

\* A statement whose handler opens child scopes that are not in a loop.
VisitBranchStatement ==
  /\ pc = "walk"
  /\ Len(visited) < MaxStatements
  /\ \E statement \in BlockStatements \cup IfStatements \cup SwitchStatements
                       \cup TryStatements \cup LabeledStatements : Visit(statement)

\* A statement whose handler opens a loop scope.
VisitLoopStatement ==
  /\ pc = "walk"
  /\ Len(visited) < MaxStatements
  /\ \E statement \in ForXStatements \cup LoopStatements : Visit(statement)

\* A statement under a skip comment.
VisitSkippedStatement ==
  /\ pc = "walk"
  /\ Len(visited) < MaxStatements
  /\ \E statement \in SkippedStatements : Visit(statement)

ReplaceBody ==
  /\ pc = "walk"
  /\ LET final == getStatements(opt, RootScope)
     IN  /\ opt' = final.o
         /\ result' = final.statements
  /\ pc' = "done"
  /\ UNCHANGED <<visited, invocation>>

Next ==
  \/ VisitStatement
  \/ VisitBranchStatement
  \/ VisitLoopStatement
  \/ VisitSkippedStatement
  \/ ReplaceBody

Spec == Init /\ [][Next]_vars

(***************************************************************************)
(* The component bodies of the end-to-end scenarios: member reads, the     *)
(* memo, callback and effect hooks with and without a dependency array,    *)
(* and custom hooks whose callee is foreign or a member of a binding.      *)
(***************************************************************************)
member(object, property) == memberExpression(reference(object), identifier(property), FALSE)

\* () => fa(...free): a function literal calling fa on its free variables.
closure(free) == arrowFunctionExpression([i \in DOMAIN free |-> reference(free[i])])

useMemoEmpty ==
  variableDeclaration("const",
    <<variableDeclarator(identifier("x"),
        hookCall("memo", reference("useMemo"), <<closure(<<>>), arrayExpression(<<>>)>>))>>)

useG == expressionStatement(hookCall("custom", reference("useG"), <<x>>))

useMember ==
  expressionStatement(hookCall("custom", member("p", "useG"), <<x, reference("g")>>))

\* return p.x + p.y;
returnSum == returnStatement(binaryExpression("+", member("p", "x"), member("p", "y")))

\* x ? fa(p) : fb(q);  fa(x) ? 1 : fb(q);  x ? 1 : 0;
conditionalOfCalls ==
  expressionStatement(conditionalExpression(x, call("fa", <<reference("p")>>),
                                            call("fb", <<reference("q")>>)))

conditionalOfLiteralAndCall ==
  expressionStatement(conditionalExpression(call("fa", <<x>>), numericLiteral(1),
                                            call("fb", <<reference("q")>>)))

conditionalOfLiterals ==
  expressionStatement(conditionalExpression(x, numericLiteral(1), numericLiteral(0)))

ConditionalStatements ==
  {conditionalOfCalls, conditionalOfLiteralAndCall, conditionalOfLiterals}

\* fa(x); with fa a hook the preset marks skip.
skipCall == expressionStatement(hookCall("skip", reference("fa"), <<x>>))

ScenarioStatements ==
  ConditionalStatements \cup
  { returnSum,
    skipCall,
    useMemoEmpty,
    returnStatement(x),
    useG,
    useMember,
    variableDeclaration("const",
      <<variableDeclarator(identifier("q"),
          hookCall("memo", reference("useMemo"), <<closure(<<"x">>)>>))>>),
    expressionStatement(hookCall("callback", reference("useCallback"),
                                 <<closure(<<"x">>), arrayExpression(<<x>>)>>)),
    expressionStatement(hookCall("effect", reference("useEffect"),
                                 <<closure(<<"x">>), arrayExpression(<<x>>)>>)) }

VisitScenarioStatement ==
  /\ pc = "walk"
  /\ Len(visited) < MaxStatements
  /\ \E statement \in ScenarioStatements : Visit(statement)

ScenarioNext ==
  \/ VisitScenarioStatement
  \/ ReplaceBody

SpecScenarios == Init /\ [][ScenarioNext]_vars

(***************************************************************************)
(* createMemo on its own: one call of Optimizer.createMemo with arguments  *)
(* as its callers make them, on an optimizer that has memoized nothing,    *)
(* has memoized the binding x, or stands in the scope of a loop body.      *)
(***************************************************************************)
MaxDependencies == 3

\* What a dependency list holds: an absent entry, the binding x, an
\* occurrence of the same name (another node) and a guard that is a call.
Dependencies ==
  { Undefined, identifier("x"), reference("x"),
    callExpression(getImportIdentifier(RUNTIME_EQUALS),
                   <<identifier("h"), numericLiteral(0), identifier("p")>>) }

RECURSIVE DependencyLists(_)
DependencyLists(n) ==
  IF n = 0 THEN {<<>>}
  ELSE DependencyLists(n - 1)
       \cup { Append(list, d) : list \in { l \in DependencyLists(n - 1) : Len(l) = n - 1 },
                                d \in Dependencies }

\* The calls, by caller: memoizeIdentifier and createDependency (false),
\* a call that omits the argument, optimizeExpression on a constant (true),
\* optimizeRef (true, on the ref cache), optimizeUnaryExpression (one
\* expression), and the handlers that pass the list they merged.
MemoCalls ==
  { [current |-> current, dependencies |-> dependencies, type |-> "memo"] :
      current \in {identifier("x"), call("fa", <<identifier("q")>>)},
      dependencies \in {FalseDeps, NoDeps} }
  \cup { [current |-> current, dependencies |-> TrueDeps, type |-> "memo"] :
           current \in {reference("g"), call("fa", <<reference("g")>>)} }
  \cup { [current |-> objectExpression(<<objectProperty(identifier("current"),
                                           unaryExpression("void", numericLiteral(0)))>>),
          dependencies |-> TrueDeps, type |-> "ref"] }
  \cup { [current |-> unaryExpression("-", identifier("q")),
          dependencies |-> OneDep(identifier("x")), type |-> "memo"] }
  \cup { [current |-> call("fa", <<identifier("q")>>),
          dependencies |-> ListDeps(list), type |-> "memo"] :
           list \in DependencyLists(MaxDependencies) }

MemoInit ==
  /\ opt \in { Optimizer,
               createMemo(Optimizer, identifier("x"), FalseDeps, "memo").o,
               Let([loop \in {newScope(Optimizer, RootScope, TRUE)} |->
                 setScope(loop.o, loop.scope)]) }
  /\ visited = <<>>
  /\ result = <<>>
  /\ pc = "walk"
  /\ invocation = NoCall

CreateMemo ==
  /\ pc = "walk"
  /\ \E arguments \in MemoCalls :
       LET memo == createMemo(opt, arguments.current, arguments.dependencies,
                              arguments.type)
       IN  /\ opt' = memo.o
           /\ invocation' = [method |-> "createMemo", current |-> arguments.current,
                             dependencies |-> arguments.dependencies,
                             type |-> arguments.type, answer |-> memo.r]
  /\ pc' = "done"
  /\ UNCHANGED <<visited, result>>

MemoNext == CreateMemo

SpecCreateMemo == MemoInit /\ [][MemoNext]_vars

(***************************************************************************)
(* createMemo called a second time, on the identifier node the first call  *)
(* was given or on the value identifier the first call answered.           *)
(***************************************************************************)
\* The node of the last call's current, as the table knows it.
sameNode ==
  IF invocation.answer.expr.t = "Identifier"
  THEN optimizedKey(invocation.current, invocation.answer.expr.n)
  ELSE invocation.current

CreateMemoAgain ==
  /\ pc = "done"
  /\ invocation.method = "createMemo"
  /\ invocation.current.t = "Identifier"
  /\ \E current \in {sameNode, invocation.answer.expr} :
     \E dependencies \in {FalseDeps, TrueDeps, NoDeps} :
       LET memo == createMemo(opt, current, dependencies, "memo")
       IN  /\ opt' = memo.o
           /\ invocation' = [method |-> "createMemo", current |-> current,
                             dependencies |-> dependencies,
                             type |-> "memo", answer |-> memo.r]
  /\ pc' = "again"
  /\ UNCHANGED <<visited, result>>

MemoAgainNext ==
  \/ CreateMemo
  \/ CreateMemoAgain

SpecCreateMemoAgain == MemoInit /\ [][MemoAgainNext]_vars

(***************************************************************************)
(* Components whose body is one loop: optimizeLoopStatement over loop      *)
(* bodies made of calls, hooks and statements that open a nested scope.    *)
(***************************************************************************)
MaxBody == 2

LoopBodyStatements ==
  { read("fa", "q"),
    expressionStatement(useRef),
    blockStatement(<<read("fa", "q")>>),
    ifStatement(x, blockStatement(<<read("fb", "x")>>)),
    labeledStatement("l", blockStatement(<<read("fb", "q")>>)) }

LoopBodies == UNION { [1..n -> LoopBodyStatements] : n \in 1..MaxBody }

Loops ==
  { whileStatement(x, blockStatement(body)) : body \in LoopBodies }
  \cup { forOfStatement(identifier("q"), reference("p"), blockStatement(body)) :
           body \in LoopBodies }

VisitLoop ==
  /\ pc = "walk"
  /\ visited = <<>>
  /\ \E statement \in Loops : Visit(statement)

LoopNext ==
  \/ VisitLoop
  \/ ReplaceBody

SpecLoops == Init /\ [][LoopNext]_vars

(***************************************************************************)
(* The simplifier: getBooleanishState and simplifyExpressions.  The        *)
(* traversal runs the exit visitors, so a node's handler sees the node     *)
(* with its children already rewritten.  A handler answers the nodes that  *)
(* stand in the node's place: none when it removes the node, otherwise     *)
(* one.                                                                    *)
(***************************************************************************)
booleanLiteral(value) == Node("BooleanLiteral", IF value THEN "true" ELSE "false", 0, <<>>)

bigIntLiteral(value) == Node("BigIntLiteral", value, 0, <<>>)

\* The node kinds getBooleanishState looks through: node.expression.
ExpressionWrappers ==
  {"ParenthesizedExpression", "TypeCastExpression", "TSAsExpression",
   "TSSatisfiesExpression", "TSNonNullExpression", "TSTypeAssertion",
   "TSInstantiationExpression"}

wrapper(type, expression) == Node(type, "", 0, <<expression>>)

\* getBooleanishState without the wrapper cases.
getBooleanishStateOfLiteral(node) ==
  CASE node.t = "BooleanLiteral" -> IF node.s = "true" THEN "truthy" ELSE "falsy"
    [] node.t = "NumericLiteral" -> IF node.n = 0 THEN "falsy" ELSE "truthy"
    [] node.t = "NullLiteral" -> "nullish"
    [] node.t = "StringLiteral" -> IF node.s = "" THEN "falsy" ELSE "truthy"
    [] node.t = "BigIntLiteral" -> IF node.s = "0" THEN "falsy" ELSE "truthy"
    [] OTHER -> "indeterminate"

RECURSIVE getBooleanishState(_)
getBooleanishState(node) ==
  CASE node.t = "BooleanLiteral" -> IF node.s = "true" THEN "truthy" ELSE "falsy"
    [] node.t = "NumericLiteral" -> IF node.n = 0 THEN "falsy" ELSE "truthy"
    [] node.t = "NullLiteral" -> "nullish"
    [] node.t = "StringLiteral" -> IF node.s = "" THEN "falsy" ELSE "truthy"
    [] node.t = "BigIntLiteral" -> IF node.s = "0" THEN "falsy" ELSE "truthy"
    [] node.t = "Identifier" -> "indeterminate"
    [] node.t \in ExpressionWrappers -> getBooleanishState(node.k[1])
    [] OTHER -> "indeterminate"

\* ConditionalExpression: exit
exitConditionalExpression(node) ==
  LET state == getBooleanishState(node.k[1])
  IN  IF state = "truthy" THEN <<node.k[2]>>
      ELSE IF state # "indeterminate" THEN <<node.k[3]>>
      ELSE <<node>>

\* LogicalExpression: exit
exitLogicalExpression(node) ==
  LET state == getBooleanishState(node.k[1])
  IN  CASE state = "nullish" -> <<IF node.s = "??" THEN node.k[2] ELSE node.k[1]>>
        [] state = "falsy" -> <<IF node.s = "||" THEN node.k[2] ELSE node.k[1]>>
        [] state = "truthy" -> <<IF node.s = "&&" THEN node.k[2] ELSE node.k[1]>>
        [] OTHER -> <<node>>

\* UnaryExpression: exit
exitUnaryExpression(node) ==
  LET state == getBooleanishState(node.k[1])
  IN  CASE node.s = "void" ->
             IF state # "indeterminate"
             THEN <<unaryExpression("void", numericLiteral(0))>>
             ELSE <<node>>
        [] node.s = "!" ->
             IF state = "truthy" THEN <<booleanLiteral(FALSE)>>
             ELSE IF state # "indeterminate" THEN <<booleanLiteral(TRUE)>>
             ELSE <<node>>
        [] OTHER -> <<node>>

\* IfStatement: exit
exitIfStatement(node) ==
  LET state == getBooleanishState(node.k[1])
  IN  IF state = "truthy" THEN <<node.k[2]>>
      ELSE IF state = "indeterminate" THEN <<node>>
      ELSE IF Len(node.k) = 3 THEN <<node.k[3]>>
      ELSE <<>>

\* WhileStatement: exit
exitWhileStatement(node) ==
  IF getBooleanishState(node.k[1]) = "falsy" THEN <<>> ELSE <<node>>

exit(node) ==
  CASE node.t = "ConditionalExpression" -> exitConditionalExpression(node)
    [] node.t = "LogicalExpression" -> exitLogicalExpression(node)
    [] node.t = "UnaryExpression" -> exitUnaryExpression(node)
    [] node.t = "IfStatement" -> exitIfStatement(node)
    [] node.t = "WhileStatement" -> exitWhileStatement(node)
    [] OTHER -> <<node>>

\* path.traverse: the children first, in order, then the node's own exit
\* visitor.  The statements of a block are a list, and a removed statement
\* leaves it; every other child is a single node, which the traversal of
\* the inputs below never removes (a statement that is not in a block's
\* list is a block).
RECURSIVE traverse(_)
RECURSIVE traverseList(_)
traverseList(nodes) ==
  IF nodes = <<>> THEN <<>>
  ELSE traverse(Head(nodes)) \o traverseList(Tail(nodes))

traverse(node) ==
  IF node.t = "BlockStatement" THEN <<[node EXCEPT !.k = traverseList(node.k)]>>
  ELSE exit([node EXCEPT !.k = [i \in DOMAIN node.k |-> traverse(node.k[i])[1]]])

\* simplifyExpressions(path) on a component whose body is the statements.
simplifyExpressions(body) == traverseList(body)

(***************************************************************************)
(* The simplifier driven on its own over one-statement bodies.  The        *)
(* operand a handler tests ranges over the literals, an identifier, an     *)
(* array, every wrapper, and the expressions one level below.              *)
(***************************************************************************)
MaxNesting == 2

SimplifierAtoms ==
  { booleanLiteral(TRUE), booleanLiteral(FALSE), numericLiteral(0), numericLiteral(1),
    nullLiteral, stringLiteral(""), stringLiteral("a"), bigIntLiteral("0"),
    bigIntLiteral("1"), reference("x"), arrayExpression(<<>>),
    wrapper("TSAsExpression", parenthesizedExpression(nullLiteral)) }
  \cup { wrapper(type, operand) :
           type \in ExpressionWrappers,
           operand \in {booleanLiteral(TRUE), reference("x")} }

RECURSIVE SimplifierExpressions(_)
SimplifierExpressions(depth) ==
  IF depth = 0 THEN SimplifierAtoms
  ELSE LET below == SimplifierExpressions(depth - 1)
       IN  SimplifierAtoms
           \cup { conditionalExpression(operand, reference("p"), reference("q")) :
                    operand \in below }
           \cup { conditionalExpression(reference("x"), operand, reference("q")) :
                    operand \in below }
           \cup { logicalExpression(op, operand, reference("q")) :
                    op \in {"||", "&&", "??"}, operand \in below }
           \cup { unaryExpression(op, operand) :
                    op \in {"!", "void", "-"}, operand \in below }

SimplifierStatements ==
  { expressionStatement(expression) : expression \in SimplifierExpressions(MaxNesting) }
  \cup { ifStatement(test,
            blockStatement(<<expressionStatement(unaryExpression("!", numericLiteral(0)))>>)) :
           test \in SimplifierExpressions(MaxNesting - 1) }
  \cup { ifElseStatement(test,
            blockStatement(<<expressionStatement(reference("p"))>>),
            blockStatement(<<expressionStatement(unaryExpression("void", numericLiteral(1)))>>)) :
           test \in SimplifierExpressions(MaxNesting - 1) }
  \cup { whileStatement(test, blockStatement(<<expressionStatement(reference("q"))>>)) :
           test \in SimplifierExpressions(MaxNesting - 1) }

SimplifyInit ==
  /\ opt = Optimizer
  /\ visited \in { <<statement>> : statement \in SimplifierStatements }
  /\ result = <<>>
  /\ pc = "walk"
  /\ invocation = NoCall

SimplifyExpressions ==
  /\ pc = "walk"
  /\ result' = simplifyExpressions(visited)
  /\ pc' = "done"
  /\ UNCHANGED <<opt, visited, invocation>>

SimplifyNext == SimplifyExpressions

SpecSimplify == SimplifyInit /\ [][SimplifyNext]_vars

(***************************************************************************)
(* Properties.  What the claims read: the statements a scope holds, the    *)
(* rewritten body, the slot accesses and header declarations in them.      *)
(***************************************************************************)
rootStatements == opt.scopes[RootScope].statements

rewrittenBody == blockStatement(result)

children(node) == { node.k[i] : i \in DOMAIN node.k }

RECURSIVE mentions(_, _)
mentions(node, id) == node = id \/ \E child \in children(node) : mentions(child, id)

isRuntimeCall(node, symbols) ==
  node.t = "CallExpression" /\ node.k[1] \in symbols

\* The slots a piece of code names, as <<header, index>>: header[i],
\* `i in header`, $$equals(header, i, _) and $$branch(header, i, _).
RECURSIVE accesses(_)
accesses(node) ==
  (IF node.t = "MemberExpression" /\ node.s = "computed" /\ node.k[2].t = "NumericLiteral"
   THEN {<<node.k[1], node.k[2].n>>}
   ELSE IF node.t = "BinaryExpression" /\ node.s = "in" /\ node.k[1].t = "NumericLiteral"
   THEN {<<node.k[2], node.k[1].n>>}
   ELSE IF isRuntimeCall(node, {RUNTIME_EQUALS, RUNTIME_BRANCH})
           /\ node.k[3].t = "NumericLiteral"
   THEN {<<node.k[2], node.k[3].n>>}
   ELSE {})
  \cup UNION { accesses(child) : child \in children(node) }

\* The header declarations of a piece of code: id = $$cache(_, N),
\* id = $$ref(_, N), id = $$branch(_, _, N).
RECURSIVE headerDeclarations(_)
headerDeclarations(node) ==
  (IF node.t = "VariableDeclarator"
      /\ isRuntimeCall(node.k[2], {RUNTIME_CACHE, RUNTIME_REF, RUNTIME_BRANCH})
   THEN {[id |-> node.k[1], callee |-> node.k[2].k[1],
          size |-> node.k[2].k[Len(node.k[2].k)].n]}
   ELSE {})
  \cup UNION { headerDeclarations(child) : child \in children(node) }

\* A slot of the log whose access is in the rewritten body.
isEmitted(entry) == <<entry.header, entry.index>> \in accesses(rewrittenBody)

logOf(scope, type) ==
  SelectSeq(opt.log, LAMBDA entry : entry.scope = scope /\ entry.type = type)

\* C1 - Header isolation: in the emitted code of a component no header
\* identifier is indexed both by a slot whose index came from a memo counter
\* and by a slot whose index came from a ref counter, loop bodies included.
C1_HeaderIsolation ==
  pc = "done" =>
    \A i, j \in DOMAIN opt.log :
      (/\ opt.log[i].type = "memo" /\ opt.log[j].type = "ref"
       /\ isEmitted(opt.log[i]) /\ isEmitted(opt.log[j]))
      => opt.log[i].header # opt.log[j].header

isWriteOf(statement, name) ==
  /\ statement.t = "ExpressionStatement"
  /\ statement.k[1].t = "AssignmentExpression"
  /\ statement.k[1].k[1].t = "Identifier"
  /\ statement.k[1].k[1].s = name

\* The memo value identifiers a declaration binds to reads of a binding:
\* v in `let v = eq ? header[i] : (header[i] = name)`.
memoOf(statement, name) ==
  IF statement.t # "VariableDeclaration" THEN {}
  ELSE { d.k[1] : d \in { e \in children(statement) :
                           /\ e.k[2].t = "ConditionalExpression"
                           /\ e.k[2].k[3].t = "AssignmentExpression"
                           /\ e.k[2].k[3].k[2] = getBindingIdentifier(name) } }

isSimpleStatement(statement) ==
  statement.t \in {"VariableDeclaration", "ExpressionStatement", "ReturnStatement",
                   "ThrowStatement"}

\* C2 - Assignment invalidation: once `x = ...` has been optimized, nothing
\* the same block emits afterwards uses a memo value of x that was declared
\* before the assignment statement, whatever the right-hand side reads.
C2_AssignmentInvalidation ==
  \A d, i, j \in DOMAIN rootStatements :
    (d < i /\ i < j /\ isWriteOf(rootStatements[i], "x")
       /\ isSimpleStatement(rootStatements[j]))
    => \A id \in memoOf(rootStatements[d], "x") : ~mentions(rootStatements[j], id)

\* C3 - Invalidation across the scope chain: after optimizeLVal(x, dirty)
\* no scope from the current one up to the root holds an entry for x.
C3_InvalidationAcrossScopeChain ==
  \A i \in DOMAIN opt.dirty : opt.dirty[i].holders = {}

\* C4 - Slot contiguity of emitted sizes: for every emitted declaration
\* cache(_, N), ref(_, N) and branch(_, _, N), the size-0 loop branch apart,
\* the indices the emitted code accesses against the declared header are
\* exactly 0 .. N-1.
C4_SlotContiguity ==
  pc = "done" =>
    \A d \in headerDeclarations(rewrittenBody) :
      ~(d.callee = RUNTIME_BRANCH /\ d.size = 0)
      => { a[2] : a \in { b \in accesses(rewrittenBody) : b[1] = d.id } }
           = 0 .. (d.size - 1)

occurrences(statements, statement) ==
  Cardinality({ i \in DOMAIN statements : statements[i] = statement })

\* C5 - Skip marker: a statement under a skip comment is in the finalized
\* statement list of the scope that visited it, unchanged and once per visit.
C5_SkipMarker ==
  pc = "done" =>
    \A i \in DOMAIN visited :
      shouldSkipNode(visited[i])
      => occurrences(result, visited[i]) = occurrences(visited, visited[i])

\* The statement a step visits, and the expression it holds.
visits == visited' # visited

visitedStatement == visited'[Len(visited')]

isExpressionHolder(statement) ==
  /\ ~shouldSkipNode(statement)
  /\ statement.t \in {"ExpressionStatement", "ReturnStatement", "ThrowStatement"}

counters(o, scope) ==
  IF scope \in DOMAIN o.scopes
  THEN <<o.scopes[scope].indecesMemo, o.scopes[scope].indecesRef>>
  ELSE <<0, 0>>

\* let v = i in header ? header[i] : (header[i] = expr)
oneTimeDeclaration(v, header, index, expr) ==
  variableDeclaration("let", <<variableDeclarator(v,
    conditionalExpression(binaryExpression("in", numericLiteral(index), header),
      memberExpression(header, numericLiteral(index), TRUE),
      assignmentExpression("=", memberExpression(header, numericLiteral(index), TRUE),
                           expr)))>>)

isSlotRead(node) ==
  /\ node.t = "ConditionalExpression"
  /\ node.k[2].t = "MemberExpression"
  /\ node.k[3].t = "AssignmentExpression"
  /\ node.k[3].k[1] = node.k[2]

RECURSIVE declarators(_)
declarators(node) ==
  (IF node.t = "VariableDeclarator" THEN {node} ELSE {})
  \cup UNION { declarators(child) : child \in children(node) }

\* The expression a value identifier caches in a piece of code, or the
\* node itself when the code declares no slot read under that name.
origin(code, node) ==
  LET reads == { d \in declarators(code) : d.k[1] = node /\ isSlotRead(d.k[2]) }
  IN  IF reads = {} THEN node ELSE the(reads).k[2].k[3].k[2]

\* The side effects of the component's own code in a node, in evaluation
\* order: calls of functions that are no hooks, updates and writes of the
\* component's bindings.  Every branch is taken; a slot read evaluates its
\* guard and, on a cold cache, the expression it caches.  code is where the
\* value identifiers of the node are declared.
RECURSIVE effects(_, _, _)
RECURSIVE effectsOfAll(_, _, _, _)
effectsOfAll(nodes, i, code, cold) ==
  IF i > Len(nodes) THEN <<>>
  ELSE effects(nodes[i], code, cold) \o effectsOfAll(nodes, i + 1, code, cold)

effects(node, code, cold) ==
  IF shouldSkipNode(node) THEN <<>>
  ELSE IF isSlotRead(node)
  THEN effects(node.k[1], code, cold)
       \o (IF cold THEN effects(node.k[3].k[2], code, cold) ELSE <<>>)
  ELSE effectsOfAll(node.k, 1, code, cold)
       \o (IF node.t = "CallExpression" /\ node.s = "none"
           THEN << <<"call", origin(code, node.k[1]).s>> >>
           ELSE IF node.t = "UpdateExpression"
           THEN << <<"update", node.k[1].s>> >>
           ELSE IF node.t = "AssignmentExpression" /\ node.k[1].t = "Identifier"
                   /\ node.k[1].n <= 0
           THEN << <<"write", node.k[1].s>> >>
           ELSE <<>>)

RECURSIVE isSubsequence(_, _)
isSubsequence(a, b) ==
  IF a = <<>> THEN TRUE
  ELSE IF b = <<>> THEN FALSE
  ELSE IF Head(a) = Head(b) THEN isSubsequence(Tail(a), Tail(b))
  ELSE isSubsequence(a, Tail(b))

\* C7 - Evaluation-order preservation: the side effects of the rewritten
\* body on a cold cache are those of the original body, in the same
\* order; on a warm cache they are a subsequence of them.
C7_EvaluationOrder ==
  pc = "done" =>
    LET original == effects(blockStatement(visited), blockStatement(visited), TRUE)
    IN  /\ effects(rewrittenBody, rewrittenBody, TRUE) = original
        /\ isSubsequence(effects(rewrittenBody, rewrittenBody, FALSE), original)

isLogicalStatement(statement) ==
  /\ ~shouldSkipNode(statement)
  /\ statement.t = "ExpressionStatement"
  /\ statement.k[1].t = "LogicalExpression"

\* C8 - Logical short-circuit: for `a op b` the enclosing scope receives
\* what a emits, then `let c = a'`, then one if statement without else whose
\* test is !c for ||, c == null for ?? and c for &&; everything emitted for
\* b (its memo declarations, its branch header declaration, the assignment
\* c = b') is in the block of that if statement, the assignment last.
C8_LogicalShortCircuit ==
  [][(visits /\ isLogicalStatement(visitedStatement))
     => LET node == visitedStatement.k[1]
            id == generateUidIdentifier(opt, "condition")
            c == id.id
            left == optimizeExpression(id.o, node.k[1])
            before == left.o.scopes[opt.scope].statements
            after == opt'.scopes[opt.scope].statements
            rightScope == Len(left.o.scopes) + 1
            emitted == opt'.scopes[rightScope].statements
            branch == after[Len(before) + 2]
            block == branch.k[2]
        IN  /\ Len(after) = Len(before) + 3
            /\ SubSeq(after, 1, Len(before)) = before
            /\ after[Len(before) + 1]
                 = variableDeclaration("let", <<variableDeclarator(c, left.r.expr)>>)
            /\ branch.t = "IfStatement" /\ Len(branch.k) = 2
            /\ branch.k[1] = CASE node.s = "||" -> unaryExpression("!", c)
                               [] node.s = "??" -> binaryExpression("==", c, nullLiteral)
                               [] node.s = "&&" -> c
            /\ block.t = "BlockStatement"
            /\ after[Len(before) + 3] = expressionStatement(c)
            /\ opt'.scopes[rightScope].parent = opt.scope
            /\ \A other \in DOMAIN opt'.scopes :
                 other > rightScope => opt'.scopes[other].statements = <<>>
            /\ emitted # <<>>
            /\ \A i \in DOMAIN emitted :
                 IF i = Len(emitted)
                 THEN /\ emitted[i].t = "ExpressionStatement"
                      /\ emitted[i].k[1].t = "AssignmentExpression"
                      /\ emitted[i].k[1].k[1] = c
                      /\ block.k[Len(block.k)] = emitted[i]
                 ELSE /\ emitted[i].t = "VariableDeclaration"
                      /\ children(emitted[i]) \subseteq declarators(block)
            /\ opt'.scopes[rightScope].memo # Undefined
               => \E d \in headerDeclarations(block) :
                    /\ d.id = opt'.scopes[rightScope].memo
                    /\ d.callee = RUNTIME_BRANCH
            /\ ~mentions(blockStatement(SubSeq(after,
                           Len(opt.scopes[opt.scope].statements) + 1, Len(before) + 1)),
                         node.k[2].k[1])
            /\ mentions(block, node.k[2].k[1])]_vars

C8_LogicalVisited ==
  /\ visited # <<>>
  /\ isLogicalStatement(visited[Len(visited)])
  /\ visited[Len(visited)].k[1].s = "??"
  /\ \E i \in DOMAIN rootStatements :
       /\ rootStatements[i].t = "IfStatement"
       /\ rootStatements[i].k[1].t = "BinaryExpression"
       /\ rootStatements[i].k[1].k[2] = nullLiteral
       /\ accesses(rootStatements[i].k[2]) # {}

headerOf(scope, type) ==
  IF type = "ref" THEN opt.scopes[scope].ref ELSE opt.scopes[scope].memo

\* C9 - One header per scope: within one scope and one cache kind every
\* slot access of createMemo and every parent-slot reservation of a child
\* pairs its index with the same header, the one createHeader made for the
\* scope and kind.
C9_OneHeaderPerScope ==
  \A i \in DOMAIN opt.log :
    opt.log[i].header = headerOf(opt.log[i].scope, opt.log[i].type)

\* The value declarations createMemo pushed to a scope.
slotReads(scope) ==
  { d \in UNION { children(statement) :
                   statement \in { e \in children(blockStatement(opt.scopes[scope].statements)) :
                                     e.t = "VariableDeclaration" } } :
      isSlotRead(d.k[2]) }

C10_Indices ==
  \A scope \in DOMAIN opt.scopes :
    /\ \A type \in {"memo", "ref"} :
         LET entries == logOf(scope, type)
         IN  /\ Len(entries) = IF type = "memo" THEN opt.scopes[scope].indecesMemo
                               ELSE opt.scopes[scope].indecesRef
             /\ \A i \in DOMAIN entries :
                  /\ entries[i].index = i - 1
                  /\ entries[i].use \in {"value", "branch", "loop"}
                  /\ entries[i].use = "value"
                     => \E d \in slotReads(scope) :
                          d.k[2].k[2] = memberExpression(entries[i].header,
                                          numericLiteral(entries[i].index), TRUE)
    /\ Cardinality(slotReads(scope))
         = Cardinality({ i \in DOMAIN opt.log :
                          opt.log[i].scope = scope /\ opt.log[i].use = "value" })

\* C10 - Slot counters: per scope and cache kind the createIndex calls
\* answer 0, 1, 2, ... without gap or repetition, the counter (the number
\* of calls so far) never decreases, and each index is consumed once, by
\* one value declaration of createMemo or by one branch reservation.
C10_SlotCounters ==
  [][/\ C10_Indices'
     /\ \A scope \in DOMAIN opt.scopes :
          /\ scope \in DOMAIN opt'.scopes
          /\ opt'.scopes[scope].indecesMemo >= opt.scopes[scope].indecesMemo
          /\ opt'.scopes[scope].indecesRef >= opt.scopes[scope].indecesRef]_vars

C10_SlotsOfBothUses ==
  \E scope \in DOMAIN opt.scopes :
    /\ opt.scopes[scope].indecesMemo >= 3
    /\ opt.scopes[scope].indecesRef >= 1
    /\ \E i, j \in DOMAIN opt.log :
         /\ opt.log[i].scope = scope /\ opt.log[i].use = "value"
         /\ opt.log[j].scope = scope /\ opt.log[j].use = "branch"

\* The declarators of the `let` the rewritten body begins with.
leadingDeclarators ==
  IF result # <<>> /\ result[1].t = "VariableDeclaration" THEN result[1].k ELSE <<>>

\* The declarators among them that bind a header to a call of the symbol.
rootHeaders(symbol) ==
  SelectSeq(leadingDeclarators, LAMBDA d : isRuntimeCall(d.k[2], {symbol}))

allocated(type) ==
  \E scope \in DOMAIN opt.scopes :
    (IF type = "ref" THEN opt.scopes[scope].indecesRef
     ELSE opt.scopes[scope].indecesMemo) > 0

\* C11 - Root block shape: the rewritten body begins with its header
\* declarations; a $$cache(useMemo, N) declaration is there iff a memo slot
\* was allocated in some scope of the component, a $$ref(useRef, M)
\* declaration iff a ref slot was, each at most once and nowhere else, and N
\* and M are the root scope's final counters.
C11_RootBlockShape ==
  pc = "done" =>
    LET cache == rootHeaders(RUNTIME_CACHE)
        ref == rootHeaders(RUNTIME_REF)
        n == Len(cache) + Len(ref)
    IN  /\ (Len(cache) > 0) <=> allocated("memo")
        /\ (Len(ref) > 0) <=> allocated("ref")
        /\ Len(cache) <= 1 /\ Len(ref) <= 1
        /\ \A d \in headerDeclarations(rewrittenBody) :
             d.callee \in {RUNTIME_CACHE, RUNTIME_REF} =>
               \E i \in 1..n : leadingDeclarators[i].k[1] = d.id
        /\ \A i \in 1..n :
             isRuntimeCall(leadingDeclarators[i].k[2], {RUNTIME_CACHE, RUNTIME_REF})
        /\ \A i \in DOMAIN cache :
             cache[i].k[2].k = <<RUNTIME_CACHE, RUNTIME_USE_MEMO,
                                 numericLiteral(opt.scopes[RootScope].indecesMemo)>>
        /\ \A i \in DOMAIN ref :
             ref[i].k[2].k = <<RUNTIME_REF, RUNTIME_USE_REF,
                               numericLiteral(opt.scopes[RootScope].indecesRef)>>

\* The scopes C12 speaks of: not the root, not a loop body.
branchScopes ==
  { scope \in DOMAIN opt.scopes :
      opt.scopes[scope].parent # NoScope /\ ~opt.scopes[scope].isInLoop }

\* The top-level declarators of a statement list.
RECURSIVE topDeclarators(_)
topDeclarators(statements) ==
  IF statements = <<>> THEN {}
  ELSE (IF Head(statements).t = "VariableDeclaration"
        THEN children(Head(statements)) ELSE {})
       \cup topDeclarators(Tail(statements))

\* The $$branch declarations the scope's finalized list holds for the kind:
\* the declarators that bind the scope's header of the kind.
branchDeclarations(scope, type) ==
  { d \in topDeclarators(opt.scopes[scope].finalized[1].statements) :
      d.k[1] = headerOf(scope, type) /\ isRuntimeCall(d.k[2], {RUNTIME_BRANCH}) }

counterOf(scope, type) ==
  IF type = "ref" THEN opt.scopes[scope].indecesRef ELSE opt.scopes[scope].indecesMemo

\* C12 - Branch reservation: a scope that is neither the root nor a loop body
\* is finalized once; its finalized list holds a declaration
\* $$branch(parentHeader, parentSlot, size) for a cache kind iff the scope
\* allocated a slot of the kind; parentSlot is a slot the parent reserved
\* for a branch, reserved for no other scope; size is the scope's counter at
\* the call, and the counter never moves afterwards.
C12_BranchReservation ==
  \A scope \in branchScopes : \A type \in {"memo", "ref"} :
    LET parent == opt.scopes[scope].parent
        final == opt.scopes[scope].finalized
    IN  /\ Len(final) = 1
        /\ (branchDeclarations(scope, type) # {}) <=> (counterOf(scope, type) > 0)
        /\ Cardinality(branchDeclarations(scope, type)) <= 1
        /\ \A d \in branchDeclarations(scope, type) :
             /\ d.k[2].k[2] = headerOf(parent, type)
             /\ d.k[2].k[4] = numericLiteral(counterOf(scope, type))
             /\ Cardinality({ i \in DOMAIN opt.log :
                              /\ opt.log[i].scope = parent /\ opt.log[i].type = type
                              /\ opt.log[i].index = d.k[2].k[3].n
                              /\ opt.log[i].use = "branch" }) = 1
             /\ \A other \in branchScopes \ {scope} :
                  opt.scopes[other].parent = parent =>
                    \A e \in branchDeclarations(other, type) :
                      e.k[2].k[3] # d.k[2].k[3]
        /\ final[1].indecesMemo = opt.scopes[scope].indecesMemo
        /\ final[1].indecesRef = opt.scopes[scope].indecesRef

\* The loop scopes opened by the statements of the component body, in the
\* order of their loops, and the positions of the loops in the root list.
rootLoopScopes ==
  SelectSeq([scope \in DOMAIN opt.scopes |-> scope],
            LAMBDA scope : opt.scopes[scope].isInLoop
                           /\ opt.scopes[scope].parent = RootScope)

rootLoops ==
  SelectSeq([i \in DOMAIN rootStatements |-> i],
            LAMBDA i : isLoop(rootStatements[i]))

\* The enclosing scope holds, just before the loop at position i, the
\* declaration `let header = $$branch(parentHeader, parentSlot, 0), id = 0`
\* of the loop scope, parentSlot being a slot the parent reserved for a loop.
loopDeclaredBefore(i, scope) ==
  /\ i > 1
  /\ rootStatements[i - 1].t = "VariableDeclaration"
  /\ Len(rootStatements[i - 1].k) = 2
  /\ LET header == rootStatements[i - 1].k[1]
         counter == rootStatements[i - 1].k[2]
     IN  /\ header.k[1] = opt.scopes[scope].memo
         /\ isRuntimeCall(header.k[2], {RUNTIME_BRANCH})
         /\ header.k[2].k[2] = opt.scopes[RootScope].memo
         /\ header.k[2].k[4] = numericLiteral(0)
         /\ \E e \in DOMAIN opt.log :
              /\ opt.log[e].scope = RootScope /\ opt.log[e].type = "memo"
              /\ opt.log[e].use = "loop"
              /\ numericLiteral(opt.log[e].index) = header.k[2].k[3]
         /\ counter = variableDeclarator(opt.scopes[scope].loopIndex, numericLiteral(0))

\* The rewritten body of the loop begins with
\* `let loopId = ++id, perIteration = $$branch(header, loopId, size)`, and
\* perIteration is the header of every slot the body's own scope accesses.
loopBodyDeclared(scope) ==
  LET body == opt.scopes[scope].finalized[1].statements
  IN  /\ body # <<>>
      /\ body[1].t = "VariableDeclaration"
      /\ Len(body[1].k) >= 2
      /\ body[1].k[1].k[2] = updateExpression("++", opt.scopes[scope].loopIndex)
      /\ isRuntimeCall(body[1].k[2].k[2], {RUNTIME_BRANCH})
      /\ body[1].k[2].k[2].k[2] = opt.scopes[scope].memo
      /\ body[1].k[2].k[2].k[3] = body[1].k[1].k[1]
      /\ body[1].k[2].k[2].k[4] = numericLiteral(opt.scopes[scope].indecesMemo)
      /\ \A e \in DOMAIN opt.log :
           (opt.log[e].scope = scope /\ opt.log[e].type = "memo"
            /\ opt.log[e].use = "value") =>
             opt.log[e].header = body[1].k[2].k[1]

\* C13 - Loop shape: for every loop whose body allocates a memo slot, the
\* enclosing scope holds the loop header declaration with the loop counter
\* just before the loop statement, and the rewritten loop body begins with
\* the declaration of the per-iteration header its slot accesses use.
C13_LoopShape ==
  \A j \in DOMAIN rootLoops :
    opt.scopes[rootLoopScopes[j]].indecesMemo > 0 =>
      /\ loopDeclaredBefore(rootLoops[j], rootLoopScopes[j])
      /\ loopBodyDeclared(rootLoopScopes[j])

(***************************************************************************)
(* Properties of createMemo driven on its own.                             *)
(***************************************************************************)
memoized == invocation' # invocation /\ invocation'.method = "createMemo"

\* The statements the step pushes to the current scope.
pushed ==
  SubSeq(opt'.scopes[opt.scope].statements,
         Len(opt.scopes[opt.scope].statements) + 1,
         Len(opt'.scopes[opt.scope].statements))

\* The slot the step allocates, if it allocates one.
slot == opt'.log[Len(opt'.log)]

\* The step allocates one slot: the next one of the current scope's counter
\* of the kind, for a value.
allocates ==
  /\ Len(opt'.log) = Len(opt.log) + 1
  /\ slot.scope = opt.scope
  /\ slot.type = invocation'.type
  /\ slot.index = (IF invocation'.type = "ref" THEN opt.scopes[opt.scope].indecesRef
                   ELSE opt.scopes[opt.scope].indecesMemo)
  /\ slot.use = "value"

\* The identifier has an entry in the current scope's optimized table.
known(current) == current \in DOMAIN opt.scopes[opt.scope].optimizedID

\* let eq = $$equals(header, i, expr), v = eq ? header[i] : (header[i] = expr)
guardedDeclaration(v, eq, header, index, expr) ==
  variableDeclaration("let",
    <<variableDeclarator(eq,
        callExpression(RUNTIME_EQUALS, <<header, numericLiteral(index), expr>>)),
      variableDeclarator(v,
        conditionalExpression(eq,
          memberExpression(header, numericLiteral(index), TRUE),
          assignmentExpression("=", memberExpression(header, numericLiteral(index), TRUE),
                               expr)))>>)

\* The call emits the compared form and registers no constant.
emitsCompared ==
  /\ allocates
  /\ invocation'.answer.deps.a = "expression"
  /\ pushed = <<guardedDeclaration(invocation'.answer.expr, invocation'.answer.deps.d[1],
                                   slot.header, slot.index, invocation'.current)>>
  /\ invocation'.answer.expr \notin opt'.scopes[opt.scope].constants

\* The call emits the one-time form, registers the value identifier as a
\* constant and answers it with an empty dependency list.
emitsOneTime ==
  /\ allocates
  /\ pushed = <<oneTimeDeclaration(invocation'.answer.expr, slot.header, slot.index,
                                   invocation'.current)>>
  /\ invocation'.answer.expr \in opt'.scopes[opt.scope].constants
  /\ invocation'.answer.expr.t = "Identifier"
  /\ invocation'.answer.deps = ListDeps(<<>>)

\* C14 as the specification states it - createMemo with dependencies omitted,
\* false or an empty list emits `let eq = $$equals(header, i, expr), v = eq ?
\* header[i] : (header[i] = expr)` and does not register v as a constant.
C14_ComparedGuard ==
  [][(memoized /\ invocation'.dependencies \in {NoDeps, FalseDeps, ListDeps(<<>>)})
     => emitsCompared]_vars

\* C14 as the code has it - createMemo with dependencies omitted or false
\* emits the compared form and registers no constant, unless the expression
\* is an identifier of the scope's optimized table: then the entry is the
\* answer and nothing is emitted.  With an empty list it emits the one-time
\* form and registers the value identifier as a constant.
C14_ComparedUnlessKnownOrEmpty ==
  [][memoized
     => /\ (invocation'.dependencies \in {NoDeps, FalseDeps}
            /\ ~known(invocation'.current)) => emitsCompared
        /\ (invocation'.dependencies \in {NoDeps, FalseDeps}
            /\ known(invocation'.current))
           => /\ opt' = opt
              /\ invocation'.answer =
                   opt.scopes[opt.scope].optimizedID[invocation'.current]
        /\ invocation'.dependencies = ListDeps(<<>>) => emitsOneTime]_vars

C14_EmptyListMemoized ==
  /\ invocation.method = "createMemo"
  /\ invocation.dependencies = ListDeps(<<>>)
  /\ invocation.answer.expr \in opt.scopes[opt.scope].constants

\* C15 - createMemo(expr, true) emits exactly one declarator,
\* `v = (i in header) ? header[i] : (header[i] = expr)`, with no guard,
\* registers v in the current scope's constants and answers expr v with an
\* empty dependency list.
C15_OneTimeConstant ==
  [][(memoized /\ invocation'.dependencies = TrueDeps) => emitsOneTime]_vars

C15_ConstantMemoized ==
  /\ invocation.method = "createMemo"
  /\ invocation.dependencies = TrueDeps
  /\ invocation.type = "ref"
  /\ invocation.answer.expr \in opt.scopes[opt.scope].constants

\* The operands of a left-nested && chain, left to right.
RECURSIVE conjuncts(_)
conjuncts(node) ==
  IF node.t = "LogicalExpression" /\ node.s = "&&"
  THEN conjuncts(node.k[1]) \o <<node.k[2]>>
  ELSE <<node>>

\* The guard of the declaration createMemo emitted last, as its operands:
\* the guard declarator's chain, the guard identifier used as the test, or
\* nothing for the one-time form.
emittedGuard ==
  LET statements == opt.scopes[opt.scope].statements
      declaration == statements[Len(statements)]
      test == declaration.k[1].k[2].k[1]
  IN  IF Len(declaration.k) = 2 THEN conjuncts(declaration.k[1].k[2])
      ELSE IF test.t = "BinaryExpression" /\ test.s = "in" THEN <<>>
      ELSE <<test>>

\* C16 - Guard folding: the guard of a dependency list is a left-nested &&
\* chain of the list's entries in list order, undefined entries skipped;
\* an identifier node is in the chain once however often it is listed, two
\* identifier nodes of one name are both kept, and a dependency that is no
\* identifier is in the chain as often as it is listed.
C16_GuardFolding ==
  (invocation.method = "createMemo" /\ invocation.dependencies.a = "array") =>
    LET list == invocation.dependencies.d
        chain == emittedGuard
    IN  /\ isSubsequence(chain, list)
        /\ \A i \in DOMAIN chain :
             chain[i] # Undefined /\ chain[i].t # "LogicalExpression"
        /\ \A i \in DOMAIN list :
             list[i] # Undefined =>
               occurrences(chain, list[i]) =
                 IF list[i].t = "Identifier" THEN 1 ELSE occurrences(list, list[i])

C16_SameNameKept ==
  /\ invocation.method = "createMemo"
  /\ invocation.dependencies =
       ListDeps(<<identifier("x"), reference("x"), identifier("x")>>)
  /\ emittedGuard = <<identifier("x"), reference("x")>>

(***************************************************************************)
(* Properties of the end-to-end scenarios.                                 *)
(***************************************************************************)
\* The declarators of the code that read a slot under an identifier guard:
\* v = eq ? header[i] : (header[i] = expr).
guardedReads(code) ==
  { d \in declarators(code) : isSlotRead(d.k[2]) /\ d.k[2].k[1].t = "Identifier" }

\* The body of function C(p) { return p.x + p.y; } is rewritten with one
\* cache of the size, and each of its slots is written by a guarded read.
sumCached(size) ==
  LET header == headerOf(RootScope, "memo")
  IN  /\ headerDeclarations(rewrittenBody) =
           {[id |-> header, callee |-> RUNTIME_CACHE, size |-> size]}
      /\ { a[2] : a \in accesses(rewrittenBody) } = 0..(size - 1)
      /\ \A a \in accesses(rewrittenBody) : a[1] = header
      /\ \A i \in 0..(size - 1) :
           \E d \in guardedReads(rewrittenBody) :
             d.k[2].k[2] = memberExpression(header, numericLiteral(i), TRUE)

\* C17 as stated - the scenario return p.x + p.y yields exactly one cache
\* declaration, of size 5, every slot written through a value declaration
\* eq ? header[i] : (header[i] = expr).
C17_SumCacheOfFive ==
  (pc = "done" /\ visited = <<returnSum>>) => sumCached(5)

\* C17 - The scenario return p.x + p.y yields exactly one cache declaration,
\* of size 6: slots for p, for p.x and p.y guarded on p, for the referential
\* comparison of each of the two member values, and for the sum; the return
\* takes no slot of its own.  Every slot is written through a value
\* declaration eq ? header[i] : (header[i] = expr).
C17_SumCacheOfSix ==
  (pc = "done" /\ visited = <<returnSum>>) =>
    /\ sumCached(6)
    /\ Cardinality({ d \in guardedReads(rewrittenBody) :
                      /\ d.k[2].k[3].k[2].t = "Identifier"
                      /\ \E m \in guardedReads(rewrittenBody) :
                           /\ m.k[1] = d.k[2].k[3].k[2]
                           /\ m.k[2].k[3].k[2].t = "MemberExpression" }) = 2
    /\ Cardinality({ d \in guardedReads(rewrittenBody) :
                      d.k[2].k[3].k[2].t = "BinaryExpression" }) = 1
    /\ result[Len(result)].t = "ReturnStatement"
    /\ result[Len(result)].k[1] \in { d.k[1] : d \in guardedReads(rewrittenBody) }

C17_SumOptimized ==
  /\ pc = "done"
  /\ visited = <<returnSum>>
  /\ Len(result) = 2

\* The step visits the statement.
visiting(statement) == visits /\ visited' = Append(visited, statement)

\* The memo slots the step allocates in the current scope.
memoSlots == opt'.scopes[opt.scope].indecesMemo - opt.scopes[opt.scope].indecesMemo

\* The step pushes a one-time declaration of the expression at the slot.
pushesOneTime(index, expr) ==
  \E i \in DOMAIN pushed : \E v \in opt'.scopes[opt.scope].constants :
    pushed[i] = oneTimeDeclaration(v, opt'.scopes[opt.scope].memo, index, expr)

\* C18 as stated - optimizing const x = useMemo(fn, []) allocates exactly one
\* memo slot, the one holding fn() in the one-time form; the dependency array
\* takes no slot.
C18_EmptyMemoOneSlot ==
  [][visiting(useMemoEmpty) =>
       /\ memoSlots = 1
       /\ pushesOneTime(opt.scopes[opt.scope].indecesMemo,
                        callExpression(closure(<<>>), <<>>))
       /\ \A d \in declarators(blockStatement(pushed)) :
            ~mentions(d, arrayExpression(<<>>))]_vars

\* C18 - Optimizing const x = useMemo(fn, []) allocates exactly two memo
\* slots and no ref slot: the empty dependency array, being constant, takes
\* the next slot in the one-time form, and fn() takes the slot after it, also
\* in the one-time form with no guard; x is bound to the value identifier of
\* the second.
C18_EmptyMemoTwoSlots ==
  [][visiting(useMemoEmpty) =>
       LET n == opt.scopes[opt.scope].indecesMemo
           header == opt'.scopes[opt.scope].memo
       IN  /\ memoSlots = 2
           /\ opt'.scopes[opt.scope].indecesRef = opt.scopes[opt.scope].indecesRef
           /\ Len(opt'.log) = Len(opt.log) + 2
           /\ \E v, w \in opt'.scopes[opt.scope].constants :
                pushed =
                  <<oneTimeDeclaration(v, header, n, arrayExpression(<<>>)),
                    oneTimeDeclaration(w, header, n + 1,
                                       callExpression(closure(<<>>), <<>>)),
                    variableDeclaration("const",
                      <<variableDeclarator(identifier("x"), w)>>)>>]_vars

C18_EmptyMemoVisited ==
  /\ pc = "walk"
  /\ visited # <<>>
  /\ visited[Len(visited)] = useMemoEmpty
  /\ opt.scopes[RootScope].indecesMemo >= 2

\* The custom hook calls of the scenarios: useG(x) and p.useG(x, g).
customCalls == {useG, useMember}

\* The slot reads the current scope holds after the step.
scopeReads ==
  { d \in declarators(blockStatement(opt'.scopes[opt.scope].statements)) :
      isSlotRead(d.k[2]) }

\* The guard identifiers of the slot reads that declare the call's
\* arguments, in argument order.
RECURSIVE argumentGuards(_, _)
argumentGuards(node, i) ==
  IF i > Len(node.k) THEN <<>>
  ELSE LET tests == { d.k[2].k[1] : d \in { r \in scopeReads : r.k[1] = node.k[i] } }
       IN  (IF tests # {} /\ the(tests).t = "Identifier" THEN <<the(tests)>> ELSE <<>>)
           \o argumentGuards(node, i + 1)

\* What the step does with the arguments of the custom hook call and with
\* the call itself: every argument is replaced by the value identifier of a
\* slot read, no slot caches a call, and the handler's answer is the
\* rewritten call with the arguments' guards as its deps.
argumentsMemoized(statement) ==
  LET emitted == pushed[Len(pushed)].k[1]
      answer == optimizeExpression(opt, statement.k[1]).r
  IN  /\ pushed # <<>>
      /\ pushed[Len(pushed)].t = "ExpressionStatement"
      /\ emitted.t = "CallExpression"
      /\ Len(emitted.k) = Len(statement.k[1].k)
      /\ \A i \in 2..Len(emitted.k) :
           \E d \in scopeReads :
             /\ d.k[1] = emitted.k[i]
             /\ d.k[2].k[3].k[2] \in {statement.k[1].k[i],
                                       getBindingIdentifier(statement.k[1].k[i].s)}
      /\ \A d \in declarators(blockStatement(pushed)) :
           isSlotRead(d.k[2]) => d.k[2].k[3].k[2].t # "CallExpression"
      /\ answer.expr = emitted
      /\ ~answer.constant
      /\ answer.deps = ListDeps(argumentGuards(emitted, 2))

RECURSIVE unwrapped(_)
unwrapped(node) ==
  IF node.t \in ExpressionWrappers THEN unwrapped(node.k[1]) ELSE node

\* The state of an expression: determinate for the five kinds of literal
\* only.
stateOf(node) ==
  LET literal == unwrapped(node)
      holds == \/ literal.t = "BooleanLiteral" /\ literal.s = "true"
               \/ literal.t = "NumericLiteral" /\ literal.n # 0
               \/ literal.t = "StringLiteral" /\ literal.s # ""
               \/ literal.t = "BigIntLiteral" /\ literal.s # "0"
  IN  IF literal.t = "NullLiteral" THEN "nullish"
      ELSE IF literal.t \in {"BooleanLiteral", "NumericLiteral", "StringLiteral",
                              "BigIntLiteral"}
      THEN (IF holds THEN "truthy" ELSE "falsy")
      ELSE "indeterminate"

\* The operator whose right operand the table takes for a state of the left.
takesRight == [nullish |-> "??", falsy |-> "||", truthy |-> "&&"]

\* The row of the rewrite table for a node whose children are rewritten:
\* the nodes that stand in its place.
row(node) ==
  LET state == stateOf(node.k[1])
  IN  IF node.t \notin {"ConditionalExpression", "LogicalExpression", "UnaryExpression",
                         "IfStatement", "WhileStatement"}
         \/ state = "indeterminate"
      THEN <<node>>
      ELSE IF node.t = "ConditionalExpression"
      THEN <<node.k[IF state = "truthy" THEN 2 ELSE 3]>>
      ELSE IF node.t = "LogicalExpression"
      THEN <<node.k[IF node.s = takesRight[state] THEN 2 ELSE 1]>>
      ELSE IF node.t = "UnaryExpression"
      THEN (IF node.s = "!" THEN <<booleanLiteral(state # "truthy")>>
            ELSE IF node.s = "void" THEN <<unaryExpression("void", numericLiteral(0))>>
            ELSE <<node>>)
      ELSE IF node.t = "IfStatement"
      THEN (IF state = "truthy" THEN <<node.k[2]>>
            ELSE IF Len(node.k) = 3 THEN <<node.k[3]>>
            ELSE <<>>)
      ELSE IF state = "falsy" THEN <<>> ELSE <<node>>

\* The table applied bottom-up.
RECURSIVE rewritten(_)
RECURSIVE rewrittenList(_)
rewrittenList(nodes) ==
  IF nodes = <<>> THEN <<>>
  ELSE rewritten(Head(nodes)) \o rewrittenList(Tail(nodes))

rewritten(node) ==
  IF node.t = "BlockStatement" THEN <<[node EXCEPT !.k = rewrittenList(node.k)]>>
  ELSE row([node EXCEPT !.k = [i \in DOMAIN node.k |-> rewritten(node.k[i])[1]]])

\* C20 - Simplifier rewrite table: with the state of an expression truthy,
\* falsy or nullish only for boolean, numeric, string, big-integer and null
\* literals seen through parentheses and type wrappers, simplifyExpressions
\* rewrites bottom-up: a conditional to its consequent when the test is
\* truthy and to its alternate when falsy or nullish; a logical expression
\* to its right operand for nullish left and ??, falsy left and ||, truthy
\* left and &&, to its left operand for the other determinate cases; !X to
\* a boolean literal and void X to void 0 for determinate X; an if statement
\* to its consequent when truthy and to its alternate, or nothing, when
\* falsy or nullish; a while statement with a falsy test to nothing; and a
\* node whose test, left operand or argument is indeterminate stays.
C20_RewriteTable ==
  pc = "done" =>
    /\ result = rewrittenList(visited)
    /\ \A statement \in children(blockStatement(visited)) :
         stateOf(rewritten(statement.k[1])[1]) = "indeterminate"
         /\ statement.t \in {"IfStatement", "WhileStatement"}
           => /\ Len(result) = 1
              /\ result[1].t = statement.t
              /\ result[1].k[1] = rewritten(statement.k[1])[1]
              /\ Len(result[1].k) = Len(statement.k)

\* !0 is rewritten to true first, and the conditional it tests then to its
\* consequent.
C20_NestedTestSimplified ==
  /\ pc = "done"
  /\ visited = <<expressionStatement(
                   conditionalExpression(unaryExpression("!", numericLiteral(0)),
                                         reference("p"), reference("q")))>>
  /\ result = <<expressionStatement(reference("p"))>>

(***************************************************************************)
(* Properties of the descent: the current scope across calls.              *)
(***************************************************************************)
\* The calls that call j made itself, in order: i is the last of them not
\* yet counted, and the call that returned just before a call began is its
\* previous sibling.
RECURSIVE directCalls(_, _)
directCalls(j, i) ==
  IF i <= opt.calls[j].first THEN <<>>
  ELSE directCalls(j, opt.calls[i].first) \o <<i>>

\* The constructs that optimize an operand of their own before they open a
\* child scope, and that operand: the test of an if statement or of a
\* conditional, the left operand of a logical expression, the discriminant
\* of a switch, the right-hand side of a for-of.
opensAfterOperand(node) ==
  node.t \in {"IfStatement", "ConditionalExpression", "LogicalExpression",
              "SwitchStatement", "ForOfStatement"}

ownOperand(node) == IF node.t = "ForOfStatement" THEN node.k[2] ELSE node.k[1]

\* The scope was made during the call.
madeDuring(scope, entry) == scope > entry.scopes[1] /\ scope <= entry.scopes[2]

\* C21 - Current-scope save/restore: every optimizeStatement and
\* optimizeExpression call returns with the current scope it began with, and
\* between statements of the body the current scope is the root; every slot
\* allocated during a call is allocated in the scope the call began with or
\* in a scope made during the call; a call made by another begins in the
\* caller's scope or in a child scope of it made by the caller; and a
\* construct's own test, discriminant, left operand or for-of right-hand side
\* is optimized first, in the enclosing scope, every later call of the
\* construct beginning in a child scope.
C21_ScopeRestored ==
  /\ opt.scope = RootScope
  /\ \A j \in DOMAIN opt.calls :
       LET entry == opt.calls[j]
           direct == directCalls(j, j - 1)
       IN  /\ entry.returned = entry.began
           /\ \A n \in (entry.slots[1] + 1)..entry.slots[2] :
                opt.log[n].scope = entry.began \/ madeDuring(opt.log[n].scope, entry)
           /\ \A n \in DOMAIN direct :
                LET made == opt.calls[direct[n]]
                IN  \/ made.began = entry.began
                    \/ /\ madeDuring(made.began, entry)
                       /\ opt.scopes[made.began].parent = entry.began
           /\ (opensAfterOperand(entry.node) /\ direct # <<>>) =>
                /\ opt.calls[direct[1]].node = ownOperand(entry.node)
                /\ opt.calls[direct[1]].began = entry.began
                /\ \A n \in 2..Len(direct) : opt.calls[direct[n]].began # entry.began

\* An if statement has been optimized whose test allocated a slot in the
\* enclosing scope and whose consequent allocated one in its own scope.
C21_ChildScopeLeft ==
  \E j \in DOMAIN opt.calls :
    LET entry == opt.calls[j]
    IN  /\ entry.node.t = "IfStatement"
        /\ entry.began = RootScope
        /\ entry.returned = RootScope
        /\ \E n, m \in (entry.slots[1] + 1)..entry.slots[2] :
             /\ opt.log[n].scope = RootScope
             /\ opt.log[m].scope # RootScope

(***************************************************************************)
(* Properties of the lowering of conditionals.                             *)
(***************************************************************************)
\* The slots of the log from the one after `from` to `to`, as accesses.
slotsBetween(log, from, to) ==
  { <<log[n].header, log[n].index>> : n \in (from + 1)..to }

\* What the step that visits the statement `t ? a : b;` does.
conditionalLowered(statement) ==
  LET node == statement.k[1]
      parent == opt.scope
      direct == (directCalls(Len(opt.calls) - 1, Len(opt.calls) - 2))'
      test == opt'.calls[direct[1]]
      arms == <<opt'.calls[direct[2]], opt'.calls[direct[3]]>>
      n == Len(pushed)
      r == pushed[n].k[1]
      lowered == pushed[n - 1]
      before == blockStatement(SubSeq(pushed, 1, n - 3))
      blockOf(arm) == opt'.scopes[arm.began].finalized[1].statements
      armAllocated(arm) == arm.slots[2] > arm.slots[1]
      reserved == SelectSeq(SubSeq(opt'.log, Len(opt.log) + 1, Len(opt'.log)),
                            LAMBDA entry : entry.use = "branch" /\ entry.scope = parent)
      reservationOf(i) == IF i = 1 \/ ~armAllocated(arms[1]) THEN reserved[1] ELSE reserved[2]
      declared(code) == { d.k[1] : d \in declarators(code) }
      answer == optimizeExpression(opt, node).r
  IN  /\ Len(direct) = 3
      /\ test.node = node.k[1] /\ arms[1].node = node.k[2] /\ arms[2].node = node.k[3]
      /\ n >= 3
      \* the declarations produced for t, in the enclosing scope
      /\ test.began = parent
      /\ \A i \in DOMAIN before.k : before.k[i].t = "VariableDeclaration"
      /\ accesses(before) = slotsBetween(opt'.log, test.slots[1], test.slots[2])
      /\ \A i \in (test.slots[1] + 1)..test.slots[2] : opt'.log[i].scope = parent
      \* let r; if (t') { ... } else { ... }
      /\ r.t = "Identifier"
      /\ pushed[n - 2] = variableDeclaration("let", <<variableDeclarator(r, Undefined)>>)
      /\ lowered.t = "IfStatement" /\ Len(lowered.k) = 3
      /\ lowered.k[1] \in declared(blockStatement(opt'.scopes[parent].statements))
      /\ pushed[n] = expressionStatement(r)
      /\ arms[1].began # arms[2].began
      /\ \A i \in 1..2 :
           LET arm == arms[i]
               block == blockOf(arm)
               other == blockOf(arms[3 - i])
               slots == slotsBetween(opt'.log, arm.slots[1], arm.slots[2])
               last == block[Len(block)]
           IN  /\ opt'.scopes[arm.began].parent = parent
               /\ arm.began \notin DOMAIN opt.scopes
               /\ lowered.k[i + 1] = blockStatement(block)
               \* the memo declarations produced for the arm, in its block only
               /\ \A m \in (arm.slots[1] + 1)..arm.slots[2] : opt'.log[m].scope = arm.began
               /\ slots \subseteq accesses(blockStatement(block))
               /\ slots \cap (accesses(blockStatement(other)) \cup accesses(before)) = {}
               \* the block ends with r = a'
               /\ last.t = "ExpressionStatement"
               /\ last.k[1].t = "AssignmentExpression" /\ last.k[1].s = "="
               /\ last.k[1].k[1] = r
               /\ IF isLiteral(arm.node) THEN last.k[1].k[2] = arm.node
                  ELSE last.k[1].k[2] \in declared(blockStatement(block))
               \* an arm that allocated reserves a slot of the enclosing scope
               /\ armAllocated(arm) =>
                    block[1].k[1] =
                      variableDeclarator(opt'.scopes[arm.began].memo,
                        callExpression(RUNTIME_BRANCH,
                          <<opt'.scopes[parent].memo,
                            numericLiteral(reservationOf(i).index),
                            numericLiteral(opt'.scopes[arm.began].indecesMemo)>>))
               /\ ~armAllocated(arm) =>
                    \A d \in declarators(blockStatement(block)) :
                      ~isRuntimeCall(d.k[2], {RUNTIME_BRANCH})
      /\ Len(reserved) = Cardinality({ i \in 1..2 : armAllocated(arms[i]) })
      /\ Len(reserved) = 2 => reserved[1].index < reserved[2].index
      /\ \A i \in DOMAIN reserved :
           <<reserved[i].header, reserved[i].index>>
             \notin slotsBetween(opt'.log, test.slots[1], test.slots[2])
      \* the answer: r, no deps, not constant
      /\ answer = optimizedExpr(r, NoDeps, FALSE)

\* C22 - Conditional lowering: for a conditional t ? a : b that
\* optimizeConditionalExpression handles, the enclosing scope receives the
\* declarations produced for t, then `let r` with no initializer, then one
\* if (t') statement with an else; the memo declarations produced for a
\* appear only in the consequent block and those for b only in the alternate
\* block, each block ending with r = a' (resp. r = b'); the answer is r with
\* no deps and not constant; and each arm that allocated a slot reserves its
\* own slot of the enclosing scope, the consequent's before the alternate's.
C22_ConditionalLowering ==
  [][\A statement \in ConditionalStatements :
       visiting(statement) => conditionalLowered(statement)]_vars

C22_BothArmsAllocated ==
  /\ pc = "walk"
  /\ visited = <<conditionalOfCalls>>
  /\ Len(opt.scopes) = 3
  /\ opt.scopes[2].indecesMemo = 3
  /\ opt.scopes[3].indecesMemo = 3
  /\ opt.scopes[RootScope].indecesMemo = 3

(***************************************************************************)
(* Properties of calls by hook classification.                             *)
(***************************************************************************)
\* C23 - A call whose hook classification is skip is treated exactly like a
\* none call: optimizing it allocates the slots, pushes the declarations and
\* answers the value identifier and deps that optimizing the same call
\* classified none does, the whole call being stored with createMemo.
C23_SkipLikeNone ==
  [][visiting(skipCall) =>
       LET node == skipCall.k[1]
           none == optimizeExpression(opt, [node EXCEPT !.s = "none"])
           skip == optimizeExpression(opt, node)
       IN  /\ skip.r = none.r
           /\ skip.o.log = none.o.log
           /\ Len(opt'.log) = Len(none.o.log)
           /\ Len(pushed) = Len(none.o.scopes[opt.scope].statements)
                              - Len(opt.scopes[opt.scope].statements) + 1
           /\ pushed[Len(pushed)].k[1] = none.r.expr]_vars

(***************************************************************************)
(* Properties of the optimized table under createMemo.                     *)
(***************************************************************************)
\* The step is a createMemo call, the first or the second.
calls == pc' # pc /\ invocation'.method = "createMemo"

\* C24 - Identifier short-circuit: createMemo on an identifier that has an
\* entry in the current scope's optimized table answers that entry, allocates
\* no slot and pushes no statement; createMemo on an identifier without an
\* entry answers a value identifier v, and afterwards both the identifier
\* node and v map to the answer in the current scope; so a second createMemo
\* on either of them in that scope allocates nothing and answers the same.
C24_IdentifierShortCircuit ==
  [][calls =>
       LET current == invocation'.current
           answer == invocation'.answer
           table == opt.scopes[opt.scope].optimizedID
           after == opt'.scopes[opt.scope].optimizedID
       IN  /\ (current.t = "Identifier" /\ current \in DOMAIN table) =>
                /\ answer = table[current]
                /\ opt' = opt
           /\ (current.t = "Identifier" /\ current \notin DOMAIN table) =>
                /\ Len(opt'.log) = Len(opt.log) + 1
                /\ answer.expr.t = "Identifier"
                /\ optimizedKey(current, answer.expr.n) \in DOMAIN after
                /\ after[optimizedKey(current, answer.expr.n)] = answer
                /\ answer.expr \in DOMAIN after
                /\ after[answer.expr] = answer
           /\ pc' = "again" =>
                /\ answer = invocation.answer
                /\ opt' = opt]_vars

\* The second call was on the value identifier of a first call that
\* allocated a slot.
C24_ValueIdentifierAgain ==
  /\ pc = "again"
  /\ invocation.current = invocation.answer.expr
  /\ invocation.current.s = "value"
  /\ Len(opt.log) = 1
  /\ Len(opt.scopes[opt.scope].statements) = 1

(***************************************************************************)
(* Properties of finalization.                                             *)
(***************************************************************************)
\* The statements of a list in order, a `let` declaration standing for its
\* declarators one by one.
RECURSIVE unmerged(_)
unmerged(statements) ==
  IF statements = <<>> THEN <<>>
  ELSE (IF Head(statements).t = "VariableDeclaration" /\ Head(statements).s = "let"
        THEN Head(statements).k ELSE <<Head(statements)>>)
       \o unmerged(Tail(statements))

\* No two neighbours of the list are `let` declarations.
runsMerged(statements) ==
  \A i \in 1..(Len(statements) - 1) :
    ~(/\ statements[i].t = "VariableDeclaration" /\ statements[i].s = "let"
      /\ statements[i + 1].t = "VariableDeclaration" /\ statements[i + 1].s = "let")

\* C25 - Finalization loses nothing: every list getStatements answered holds
\* the header declarations and then, in push order, every statement pushed to
\* the scope and every declarator of every pushed `let` declaration, runs of
\* `let` declarations merged into one; nothing is dropped, duplicated or
\* reordered, whatever the kind of the last pushed statement.
C25_FinalizationLosesNothing ==
  \A scope \in DOMAIN opt.scopes :
    \A i \in DOMAIN opt.scopes[scope].finalized :
      LET final == opt.scopes[scope].finalized[i]
      IN  /\ unmerged(final.statements) = unmerged(final.headers \o final.pushed)
          /\ runsMerged(final.statements)

(***************************************************************************)
(* Properties of the emitted headers.                                      *)
(***************************************************************************)
\* The identifier a node uses as a cache header: header[i], `i in header`,
\* $$equals(header, i, _) and $$branch(header, _, _).
headerUsed(node) ==
  IF node.t = "MemberExpression" /\ node.s = "computed" /\ node.k[2].t = "NumericLiteral"
  THEN {node.k[1]}
  ELSE IF node.t = "BinaryExpression" /\ node.s = "in" /\ node.k[1].t = "NumericLiteral"
  THEN {node.k[2]}
  ELSE IF isRuntimeCall(node, {RUNTIME_EQUALS, RUNTIME_BRANCH})
  THEN {node.k[2]}
  ELSE {}

\* The identifiers a node binds, for the siblings that follow it, to a
\* cache, ref or branch declaration.
headersBound(node) ==
  IF node.t = "VariableDeclarator"
  THEN (IF isRuntimeCall(node.k[2], {RUNTIME_CACHE, RUNTIME_REF, RUNTIME_BRANCH})
        THEN {node.k[1]} ELSE {})
  ELSE IF node.t = "VariableDeclaration"
  THEN UNION { IF isRuntimeCall(d.k[2], {RUNTIME_CACHE, RUNTIME_REF, RUNTIME_BRANCH})
               THEN {d.k[1]} ELSE {} : d \in children(node) }
  ELSE {}

\* The header uses of a list of sibling nodes, in order, that no
\* declaration placed before them in the list or in bound (the enclosing
\* blocks) binds.
RECURSIVE unboundHeaders(_, _)
unboundHeaders(nodes, bound) ==
  IF nodes = <<>> THEN {}
  ELSE (headerUsed(Head(nodes)) \ bound)
       \cup unboundHeaders(Head(nodes).k, bound)
       \cup unboundHeaders(Tail(nodes), bound \cup headersBound(Head(nodes)))

\* C26 - Every header is declared before use: every identifier the rewritten
\* body uses as a cache header in a slot access or as the first argument of a
\* branch call is bound by a cache, ref or branch declaration of the same
\* block or of an enclosing block, placed before the use; the headers of
\* loop bodies included.
C26_HeadersDeclaredBeforeUse ==
  pc = "done" => unboundHeaders(result, {}) = {}

(***************************************************************************)
(* Properties of the Simplifier against the evaluation of the expression.  *)
(***************************************************************************)
\* The operand whose value a logical expression with a determinate left
\* operand has when evaluated: a || b is a when a is truthy and b
\* otherwise, a && b is b when a is truthy and a otherwise, a ?? b is b when
\* a is null and a otherwise.  Neither a literal passed over nor an operand
\* never reached has an effect.
operandEvaluated(node) ==
  LET state == stateOf(node.k[1])
  IN  CASE node.s = "||" -> node.k[IF state = "truthy" THEN 1 ELSE 2]
        [] node.s = "&&" -> node.k[IF state = "truthy" THEN 2 ELSE 1]
        [] node.s = "??" -> node.k[IF state = "nullish" THEN 2 ELSE 1]

\* C27 - The Simplifier preserves values: a logical expression whose left
\* operand is a determinate literal, for each of ||, && and ?? and each left
\* state truthy, falsy and nullish, is replaced by the operand whose value
\* and effects the expression has when evaluated.
C27_SimplifierPreservesValues ==
  pc = "done" =>
    \A statement \in children(blockStatement(visited)) :
      (statement.t = "ExpressionStatement" /\ statement.k[1].t = "LogicalExpression") =>
        LET node == [statement.k[1] EXCEPT
                       !.k = [i \in DOMAIN @ |-> rewritten(@[i])[1]]]
        IN  stateOf(node.k[1]) # "indeterminate" =>
              result = <<expressionStatement(operandEvaluated(node))>>

(***************************************************************************)
(* Properties of the emitted loops when they run.  The rewritten body is   *)
(* executed with every loop taking MaxIterations iterations and every `if` *)
(* its consequent.  An array is named by its path: the header of the root  *)
(* array, then the index of each branch taken; a cell is an array and an   *)
(* index.  Reading an identifier no declaration has bound ends the         *)
(* execution.                                                              *)
(***************************************************************************)
MaxIterations == 2

Machine == [env |-> <<>>, ints |-> <<>>, cells |-> {}, roots |-> {}, thrown |-> FALSE]

bound(f, key, value) ==
  [k \in DOMAIN f \cup {key} |-> IF k = key THEN value ELSE f[k]]

\* $$branch(parent, index, size): the array nested in cell index of parent.
runtimeBranch(parent, index) == Append(parent, index)

\* The slot a node accesses, as <<header, index>>.
slotUsed(node) ==
  IF node.t = "MemberExpression" /\ node.s = "computed" /\ node.k[2].t = "NumericLiteral"
  THEN {<<node.k[1], node.k[2].n>>}
  ELSE IF node.t = "BinaryExpression" /\ node.s = "in" /\ node.k[1].t = "NumericLiteral"
  THEN {<<node.k[2], node.k[1].n>>}
  ELSE IF isRuntimeCall(node, {RUNTIME_EQUALS}) /\ node.k[3].t = "NumericLiteral"
  THEN {<<node.k[2], node.k[3].n>>}
  ELSE {}

RECURSIVE execute(_, _, _, _)
RECURSIVE iterate(_, _, _)

\* id = init, the initializer evaluated: a root array, a branch of an
\* array, a number, or a counter incremented.
declare(node, m, loop, iteration) ==
  LET id == node.k[1]
      init == node.k[2]
  IN  IF isRuntimeCall(init, {RUNTIME_CACHE, RUNTIME_REF})
      THEN [m EXCEPT !.env = bound(@, id, <<id.n>>)]
      ELSE IF isRuntimeCall(init, {RUNTIME_BRANCH})
      THEN LET header == init.k[2]
               index == init.k[3]
               resolved == /\ header \in DOMAIN m.env
                           /\ (index.t = "NumericLiteral" \/ index \in DOMAIN m.ints)
               at == IF index.t = "NumericLiteral" THEN index.n ELSE m.ints[index]
           IN  IF ~resolved THEN [m EXCEPT !.thrown = TRUE]
               ELSE [m EXCEPT !.env = bound(@, id, runtimeBranch(m.env[header], at)),
                              !.roots = @ \cup {[cell |-> <<m.env[header], at>>,
                                                 counted |-> index.t # "NumericLiteral",
                                                 loop |-> loop,
                                                 iteration |-> iteration]}]
      ELSE IF init.t = "NumericLiteral"
      THEN [m EXCEPT !.ints = bound(@, id, init.n)]
      ELSE IF init.t = "UpdateExpression" /\ init.s = "++"
      THEN IF init.k[1] \notin DOMAIN m.ints THEN [m EXCEPT !.thrown = TRUE]
           ELSE [m EXCEPT !.ints = bound(bound(@, init.k[1], @[init.k[1]] + 1),
                                         id, @[init.k[1]] + 1)]
      ELSE execute(<<init>>, m, loop, iteration)

\* The body of a loop, iteration after iteration.
iterate(node, m, iteration) ==
  IF iteration > MaxIterations \/ m.thrown THEN m
  ELSE iterate(node, execute(<<node.k[Len(node.k)]>>, m, node, iteration), iteration + 1)

\* The nodes of a list executed in order.
execute(nodes, m, loop, iteration) ==
  IF nodes = <<>> \/ m.thrown THEN m
  ELSE LET node == Head(nodes)
           after ==
             IF isLoop(node)
             THEN iterate(node,
                          execute(SubSeq(node.k, 1, Len(node.k) - 1), m, loop, iteration), 1)
             ELSE IF node.t = "IfStatement"
             THEN execute(SubSeq(node.k, 1, 2), m, loop, iteration)
             ELSE IF node.t = "VariableDeclarator"
             THEN declare(node, m, loop, iteration)
             ELSE IF slotUsed(node) # {}
             THEN LET used == the(slotUsed(node))
                  IN  IF used[1] \notin DOMAIN m.env THEN [m EXCEPT !.thrown = TRUE]
                      ELSE execute(node.k,
                             [m EXCEPT !.cells = @ \cup {[cell |-> <<m.env[used[1]], used[2]>>,
                                                          loop |-> loop,
                                                          iteration |-> iteration]}],
                             loop, iteration)
             ELSE execute(node.k, m, loop, iteration)
       IN  execute(Tail(nodes), after, loop, iteration)

executed == execute(result, Machine, Undefined, 0)

\* The cells the execution touched inside loops: slots and roots.
loopCells ==
  { [cell |-> c.cell, loop |-> c.loop, iteration |-> c.iteration] :
      c \in { e \in executed.cells \cup executed.roots : e.iteration > 0 } }

\* C28 - Loop cells are iteration-private and collision-free: in one
\* execution of an emitted loop, a cell read or written in one iteration, by
\* the body's own slots or by a scope nested in the body, is never the cell
\* read or written in another iteration, and the cell that roots a nested
\* scope's branch array is never the cell that roots a per-iteration array.
C28_LoopCellsPrivate ==
  pc = "done" =>
    /\ \A c, d \in loopCells :
         (c.cell = d.cell /\ c.loop = d.loop) => c.iteration = d.iteration
    /\ \A c, d \in executed.roots :
         (c.cell = d.cell /\ c.iteration > 0 /\ d.iteration > 0 /\ c.loop = d.loop)
           => c.counted = d.counted
====
